---- MODULE Spec2Model ----
(***************************************************************************)
(* rs-peer-workspace: the proxy's connection handler and session registry  *)
(* (rs-peer-workspace-proxy/src/main.rs), with the wire schemas of the     *)
(* client peer (rs-peer-workspace-shared/src/relay.rs) and of the server   *)
(* peer (rs-peer-workspace-server/src/main.rs).                            *)
(*                                                                         *)
(* A connection handler (handle_socket) is a sequential task.  Every       *)
(* section it runs under the registry mutex is one atomic step; every      *)
(* send_to_connection it awaits afterwards is a step of its own, so other  *)
(* handlers interleave between the lock section and the sends.             *)
(*                                                                         *)
(* Spec is the proxy on its own, its sockets fed with any frame a peer can *)
(* write.  E2E is the proxy between one server peer (main.rs of            *)
(* rs-peer-workspace-server) and one client peer (connection_task of       *)
(* rs-peer-workspace-client/src/net/mod.rs), every frame written by one    *)
(* task and read by another.                                               *)
(***************************************************************************)
EXTENDS Integers, Sequences, FiniteSets, TLC

\* ------------------------------------------------------------------ bounds
MaxConns == 3
MaxSessions == 2
\* the requests the host application issues in the end-to-end system
MaxRequests == 2

ConnIds == 1..MaxConns
SessionIds == 1..MaxSessions
\* session ids a peer may name: the ones the proxy can allocate
NamedSessionIds == 1..MaxSessions

ServerNames == {"alpha", "beta"}
ServerPasswords == {"s1", "s2"}
\* passwords are only compared for equality: servers register with one,
\* clients try both
RegisterPasswords == {"s1"}
ProxyPasswords == {"p", "x"}
Roles == {"server", "client"}

NoRole == "none"
NoName == "none"

VARIABLES
    \* the proxy (rs-peer-workspace-proxy/src/main.rs)
    proxy_password,  \* AppState.proxy_password (Args.proxy_password)
    turn_url_given,  \* whether --turn-url was passed on the command line
    connections,     \* ProxyState.connections: the ids that have a sender
    conn_roles,      \* ProxyState.conn_roles : id -> role
    servers,         \* ProxyState.servers    : name -> ServerRegistration
    sessions,        \* ProxyState.sessions   : session id -> Session
    next_conn,       \* the next fresh connection id (Uuid::new_v4)
    next_session,    \* the next fresh session id (Uuid::new_v4)
    hpc,             \* per connection: where its handle_socket task stands
    role,            \* per connection: handle_socket's local `role`
    server_name,     \* per connection: handle_socket's local `server_name`
    todo,            \* per connection: the sends its handler still has to await
    outbox,          \* per connection: the outgoing_tx channel (FIFO)
    writer,          \* per connection: the writer task, "running" or "aborted"
    mutex,           \* AppState.state: the connection whose handler holds the lock (0: free)
    \* the sockets between the peers and the proxy
    conn_of,         \* peer -> the proxy's connection id of its socket (0: none)
    up,              \* per connection: frames written by the peer, not yet read
    down,            \* per connection: frames written by the proxy, not yet read
    \* the client peer (rs-peer-workspace-client/src/net/mod.rs)
    client_task,     \* connection_task: "start", "run" or "done"
    prefer_p2p,      \* ProjectConnection.prefer_p2p
    active_session,  \* connection_task's local `active_session` (0: None)
    peer_connection, \* connection_task's local `peer_connection`
    data_channel,    \* the shared `data_channel` slot: is a channel stored
    p2p_ready,       \* the shared `p2p_ready` flag
    client_ws_send,  \* the client's ws_send_tx channel
    command_rx,      \* the commands of the host application, not yet taken
    events,          \* what the task has sent on event_tx, in order
    next_request,    \* the next fresh request id of the host application
    app,             \* the host application: the fields of WorkspaceApp
    rpc_sent,        \* the request ids the task has sent on a live session
    dc_c2s,          \* texts sent on the data channel, not yet delivered
    \* the server peer (rs-peer-workspace-server/src/main.rs)
    server_task,     \* main: "start", "run" or "done"
    p2p_meta,        \* main's `p2p_meta` : session id -> SessionP2pMeta
    peer_connections,\* main's `peer_connections` : session id -> connection
    server_ws_send   \* the server's ws_send_tx channel

proxy_vars == <<proxy_password, turn_url_given, connections, conn_roles, servers,
                sessions, next_conn, next_session, hpc, role, server_name, todo,
                outbox, writer>>
net_vars == <<conn_of, up, down>>
client_vars == <<client_task, prefer_p2p, active_session, peer_connection,
                 data_channel, p2p_ready, client_ws_send, command_rx, events,
                 next_request, app, rpc_sent, dc_c2s>>
server_vars == <<server_task, p2p_meta, peer_connections, server_ws_send>>
peer_vars == <<net_vars, client_vars, server_vars>>

vars == <<proxy_vars, mutex, peer_vars>>

registry == <<connections, conn_roles, servers, sessions>>

\* ------------------------------------------------------------ wire schemas
\* serde: a text frame parses as an enum iff its tag names a variant and
\* every non-optional field of the variant is present.
ClientToProxy ==
    [auth_proxy         |-> {"proxy_password", "role"},
     register_server    |-> {"server_name", "server_password"},
     list_servers       |-> {},
     connect_server     |-> {"server_name", "server_password", "use_p2p"},
     client_command     |-> {"session_id", "command"},
     disconnect_session |-> {"session_id"}]

ServerToProxy ==
    [command_output            |-> {"session_id", "output", "done"},
     server_disconnect_session |-> {"session_id"}]

ParsesAs(schema, f) ==
    /\ f.frame = "text"
    /\ f.type \in DOMAIN schema
    /\ schema[f.type] \subseteq DOMAIN f

\* Args: --turn-url has a default value, so AppState.turn is always set.
TurnCredentials ==
    [url      |-> IF turn_url_given THEN "turn:example:3478" ELSE "turn:coturn:3478",
     username |-> "peer",
     password |-> "peer-secret"]

NoTurn == [url |-> "null"]

\* ProxyToPeer, as the proxy serializes it
AuthOk(r) == [frame |-> "text", type |-> "auth_ok", role |-> r]
AuthError(reason) == [frame |-> "text", type |-> "auth_error", reason |-> reason]
Registered(name) == [frame |-> "text", type |-> "registered", server_name |-> name]
ServersList(names) == [frame |-> "text", type |-> "servers_list", servers |-> names]
ConnectionError(reason) ==
    [frame |-> "text", type |-> "connection_error", reason |-> reason]
Connected(sid, name, p2p, turn) ==
    [frame |-> "text", type |-> "connected", session_id |-> sid,
     server_name |-> name, via_p2p |-> p2p, turn |-> turn]
ClientConnected(sid, client) ==
    [frame |-> "text", type |-> "client_connected", session_id |-> sid,
     client_id |-> client]
RunCommand(sid, command) ==
    [frame |-> "text", type |-> "run_command", session_id |-> sid,
     command |-> command]
Output(sid, output, done) ==
    [frame |-> "text", type |-> "output", session_id |-> sid,
     output |-> output, done |-> done]
SessionClosed(sid, reason) ==
    [frame |-> "text", type |-> "session_closed", session_id |-> sid,
     reason |-> reason]

\* ------------------------------------------------------------ map helpers
Remove(m, k) == [x \in DOMAIN m \ {k} |-> m[x]]
Insert(m, k, v) == [x \in DOMAIN m \cup {k} |-> IF x = k THEN v ELSE m[x]]
EmptyMap == [x \in {} |-> 0]

\* the orders in which a HashMap may yield the elements of S
RECURSIVE Orders(_)
Orders(S) ==
    IF S = {} THEN {<<>>}
    ELSE UNION {{<<x>> \o t : t \in Orders(S \ {x})} : x \in S}

Notify(to, msg) == [to |-> to, msg |-> msg]

\* Option::None of active_session and of peer_connection
NoSession == 0
NoPeerConnection == [state |-> "none"]

\* -------------------------------------------------------------- the proxy
\* main: the AppState of a proxy that has accepted nothing yet
ProxyInit ==
    /\ proxy_password = "p"
    /\ turn_url_given \in BOOLEAN
    /\ connections = {}
    /\ conn_roles = EmptyMap
    /\ servers = EmptyMap
    /\ sessions = EmptyMap
    /\ next_conn = 1
    /\ next_session = 1
    /\ hpc = [c \in ConnIds |-> "free"]
    /\ role = [c \in ConnIds |-> NoRole]
    /\ server_name = [c \in ConnIds |-> NoName]
    /\ todo = [c \in ConnIds |-> <<>>]
    /\ outbox = [c \in ConnIds |-> <<>>]
    /\ writer = [c \in ConnIds |-> "none"]
    /\ mutex = 0

\* WorkspaceApp once add_connection and create_terminal have run: one
\* connection, one terminal, nothing pending; polled counts the events taken
\* from event_rx
AppInit ==
    [pending |-> EmptyMap, polled |-> 0, connected |-> FALSE,
     transport |-> "Connecting", output_lines |-> <<"Ready.">>,
     task_lines |-> <<"connecting...">>, terminal_output |-> <<>>,
     active_bottom_tab |-> "Terminal"]

\* the two peers before they are started, but for the server's peer connections
PeersIdle ==
    /\ app = AppInit
    /\ conn_of = [p \in Roles |-> 0]
    /\ up = [c \in ConnIds |-> <<>>]
    /\ down = [c \in ConnIds |-> <<>>]
    /\ client_task = "start"
    /\ active_session = NoSession
    /\ peer_connection = NoPeerConnection
    /\ data_channel = FALSE
    /\ p2p_ready = FALSE
    /\ client_ws_send = <<>>
    /\ command_rx = <<>>
    /\ events = <<>>
    /\ next_request = 1
    /\ rpc_sent = {}
    /\ dc_c2s = <<>>
    /\ server_task = "start"
    /\ p2p_meta = EmptyMap
    /\ server_ws_send = <<>>

\* the two peers before they are started
PeerInit == PeersIdle /\ peer_connections = EmptyMap

\* the proxy on its own: the peers are whatever writes frames to its sockets
Init == ProxyInit /\ PeerInit /\ prefer_p2p = FALSE

\* handle_socket, up to the loop: a fresh conn_id, its sender inserted under
\* the lock, the writer task spawned
Accept ==
    /\ next_conn <= MaxConns
    /\ connections' = connections \cup {next_conn}
    /\ hpc' = [hpc EXCEPT ![next_conn] = "read"]
    /\ writer' = [writer EXCEPT ![next_conn] = "running"]
    /\ next_conn' = next_conn + 1
    /\ UNCHANGED <<proxy_password, turn_url_given, conn_roles, servers, sessions,
                   next_session, role, server_name, todo, outbox>>

\* the handler goes on to await `sends` and then to `pc`
Reply(c, sends, pc) ==
    /\ todo' = [todo EXCEPT ![c] = sends]
    /\ hpc' = [hpc EXCEPT ![c] = pc]

\* `continue`: the frame changes nothing
Continue(c) ==
    UNCHANGED <<registry, next_session, hpc, role, server_name, todo>>

\* mutant of Unauthenticated: the role is stored before the password is compared
UnauthenticatedStoresFirst(c, f) ==
    IF ~(ParsesAs(ClientToProxy, f) /\ f.type = "auth_proxy")
    THEN /\ Reply(c, <<Notify(c, AuthError("first message must be auth_proxy"))>>, "break")
         /\ UNCHANGED <<registry, next_session, role, server_name>>
    ELSE /\ conn_roles' = Insert(conn_roles, c, f.role)
         /\ IF f.proxy_password # proxy_password
            THEN /\ Reply(c, <<Notify(c, AuthError("invalid proxy password"))>>, "break")
                 /\ role' = role
            ELSE /\ Reply(c, <<Notify(c, AuthOk(f.role))>>, "read")
                 /\ role' = [role EXCEPT ![c] = f.role]
         /\ UNCHANGED <<connections, servers, sessions, next_session, server_name>>

\* role.is_none(): the first text frame must be auth_proxy with the password
Unauthenticated(c, f) ==
    IF ~(ParsesAs(ClientToProxy, f) /\ f.type = "auth_proxy")
    THEN /\ Reply(c, <<Notify(c, AuthError("first message must be auth_proxy"))>>, "break")
         /\ UNCHANGED <<registry, next_session, role, server_name>>
    ELSE IF f.proxy_password # proxy_password
    THEN /\ Reply(c, <<Notify(c, AuthError("invalid proxy password"))>>, "break")
         /\ UNCHANGED <<registry, next_session, role, server_name>>
    ELSE /\ conn_roles' = Insert(conn_roles, c, f.role)
         /\ Reply(c, <<Notify(c, AuthOk(f.role))>>, "read")
         /\ role' = [role EXCEPT ![c] = f.role]
         /\ UNCHANGED <<connections, servers, sessions, next_session, server_name>>

\* mutant of RegisterServer: the insert is not guarded by contains_key
RegisterServerOverwrites(c, f) ==
    IF ~(ParsesAs(ClientToProxy, f) /\ f.type = "register_server")
    THEN /\ Reply(c, <<Notify(c, ConnectionError("server must register before other actions"))>>,
                  "break")
         /\ UNCHANGED <<registry, next_session, role, server_name>>
    ELSE /\ servers' = Insert(servers, f.server_name,
                              [conn_id |-> c, server_password |-> f.server_password])
         /\ Reply(c, <<Notify(c, Registered(f.server_name))>>, "read")
         /\ server_name' = [server_name EXCEPT ![c] = f.server_name]
         /\ UNCHANGED <<connections, conn_roles, sessions, next_session, role>>

\* mutant of RegisterServer: the local server_name is set before the
\* duplicate test, so the cleanup of a rejected connection removes the name
RegisterServerNamesFirst(c, f) ==
    IF ~(ParsesAs(ClientToProxy, f) /\ f.type = "register_server")
    THEN /\ Reply(c, <<Notify(c, ConnectionError("server must register before other actions"))>>,
                  "break")
         /\ UNCHANGED <<registry, next_session, role, server_name>>
    ELSE IF f.server_name \in DOMAIN servers
    THEN /\ Reply(c, <<Notify(c, ConnectionError("server name already registered"))>>,
                  "break")
         /\ server_name' = [server_name EXCEPT ![c] = f.server_name]
         /\ UNCHANGED <<registry, next_session, role>>
    ELSE /\ servers' = Insert(servers, f.server_name,
                              [conn_id |-> c, server_password |-> f.server_password])
         /\ Reply(c, <<Notify(c, Registered(f.server_name))>>, "read")
         /\ server_name' = [server_name EXCEPT ![c] = f.server_name]
         /\ UNCHANGED <<connections, conn_roles, sessions, next_session, role>>

\* Some(AuthRole::Server), server_name.is_none()
RegisterServer(c, f) ==
    IF ~(ParsesAs(ClientToProxy, f) /\ f.type = "register_server")
    THEN /\ Reply(c, <<Notify(c, ConnectionError("server must register before other actions"))>>,
                  "break")
         /\ UNCHANGED <<registry, next_session, role, server_name>>
    ELSE IF f.server_name \in DOMAIN servers
    THEN /\ Reply(c, <<Notify(c, ConnectionError("server name already registered"))>>,
                  "break")
         /\ UNCHANGED <<registry, next_session, role, server_name>>
    ELSE /\ servers' = Insert(servers, f.server_name,
                              [conn_id |-> c, server_password |-> f.server_password])
         /\ Reply(c, <<Notify(c, Registered(f.server_name))>>, "read")
         /\ server_name' = [server_name EXCEPT ![c] = f.server_name]
         /\ UNCHANGED <<connections, conn_roles, sessions, next_session, role>>

\* ServerToProxy::CommandOutput
CommandOutput(c, f) ==
    /\ IF f.session_id \in DOMAIN sessions
       THEN Reply(c, <<Notify(sessions[f.session_id].client_conn_id,
                              Output(f.session_id, f.output, f.done))>>, "read")
       ELSE UNCHANGED <<todo, hpc>>
    /\ UNCHANGED <<registry, next_session, role, server_name>>

\* ServerToProxy::ServerDisconnectSession
ServerDisconnectSession(c, f) ==
    /\ IF f.session_id \in DOMAIN sessions
       THEN /\ sessions' = Remove(sessions, f.session_id)
            /\ Reply(c, <<Notify(sessions[f.session_id].client_conn_id,
                                 SessionClosed(f.session_id, "server closed session"))>>,
                     "read")
       ELSE UNCHANGED <<sessions, todo, hpc>>
    /\ UNCHANGED <<connections, conn_roles, servers, next_session, role, server_name>>

\* Some(AuthRole::Server), registered
ServerActive(c, f) ==
    IF ~ParsesAs(ServerToProxy, f) THEN Continue(c)
    ELSE IF f.type = "command_output" THEN CommandOutput(c, f)
    ELSE ServerDisconnectSession(c, f)

\* ClientToProxy::ListServers
ListServers(c, f) ==
    /\ Reply(c, <<Notify(c, ServersList(DOMAIN servers))>>, "read")
    /\ UNCHANGED <<registry, next_session, role, server_name>>

\* mutant of ConnectedFor: the credentials are attached whatever use_p2p says
ConnectedForAlwaysTurn(sid, f) ==
    Connected(sid, f.server_name, f.use_p2p, TurnCredentials)

\* the Connected message of a successful connect_server
ConnectedFor(sid, f) ==
    Connected(sid, f.server_name, f.use_p2p,
              IF f.use_p2p THEN TurnCredentials ELSE NoTurn)

\* mutant of ConnectServer: a refused connect_server ends the connection
ConnectServerBreaks(c, f) ==
    IF f.server_name \notin DOMAIN servers
    THEN /\ Reply(c, <<Notify(c, ConnectionError("unknown server name"))>>, "break")
         /\ UNCHANGED <<registry, next_session, role, server_name>>
    ELSE IF servers[f.server_name].server_password # f.server_password
    THEN /\ Reply(c, <<Notify(c, ConnectionError("invalid server password"))>>, "break")
         /\ UNCHANGED <<registry, next_session, role, server_name>>
    ELSE /\ next_session <= MaxSessions
         /\ sessions' = Insert(sessions, next_session,
                               [session_id     |-> next_session,
                                server_conn_id |-> servers[f.server_name].conn_id,
                                client_conn_id |-> c])
         /\ next_session' = next_session + 1
         /\ Reply(c, <<Notify(c, ConnectedFor(next_session, f)),
                       Notify(servers[f.server_name].conn_id,
                              ClientConnected(next_session, c))>>, "read")
         /\ UNCHANGED <<connections, conn_roles, servers, role, server_name>>

\* mutant of ConnectServer: the requesting connection is bound as both
\* endpoints of the session
ConnectServerBindsSelf(c, f) ==
    IF f.server_name \notin DOMAIN servers
    THEN /\ Reply(c, <<Notify(c, ConnectionError("unknown server name"))>>, "read")
         /\ UNCHANGED <<registry, next_session, role, server_name>>
    ELSE IF servers[f.server_name].server_password # f.server_password
    THEN /\ Reply(c, <<Notify(c, ConnectionError("invalid server password"))>>, "read")
         /\ UNCHANGED <<registry, next_session, role, server_name>>
    ELSE /\ next_session <= MaxSessions
         /\ sessions' = Insert(sessions, next_session,
                               [session_id     |-> next_session,
                                server_conn_id |-> c,
                                client_conn_id |-> c])
         /\ next_session' = next_session + 1
         /\ Reply(c, <<Notify(c, ConnectedFor(next_session, f)),
                       Notify(servers[f.server_name].conn_id,
                              ClientConnected(next_session, c))>>, "read")
         /\ UNCHANGED <<connections, conn_roles, servers, role, server_name>>

\* ClientToProxy::ConnectServer
ConnectServer(c, f) ==
    IF f.server_name \notin DOMAIN servers
    THEN /\ Reply(c, <<Notify(c, ConnectionError("unknown server name"))>>, "read")
         /\ UNCHANGED <<registry, next_session, role, server_name>>
    ELSE IF servers[f.server_name].server_password # f.server_password
    THEN /\ Reply(c, <<Notify(c, ConnectionError("invalid server password"))>>, "read")
         /\ UNCHANGED <<registry, next_session, role, server_name>>
    ELSE /\ next_session <= MaxSessions
         /\ sessions' = Insert(sessions, next_session,
                               [session_id     |-> next_session,
                                server_conn_id |-> servers[f.server_name].conn_id,
                                client_conn_id |-> c])
         /\ next_session' = next_session + 1
         /\ Reply(c, <<Notify(c, ConnectedFor(next_session, f)),
                       Notify(servers[f.server_name].conn_id,
                              ClientConnected(next_session, c))>>, "read")
         /\ UNCHANGED <<connections, conn_roles, servers, role, server_name>>

\* mutant of ClientCommand: an unknown session id is answered with an error
ClientCommandRepliesUnknown(c, f) ==
    /\ IF f.session_id \notin DOMAIN sessions
       THEN Reply(c, <<Notify(c, ConnectionError("unknown session"))>>, "read")
       ELSE IF sessions[f.session_id].client_conn_id = c
       THEN Reply(c, <<Notify(sessions[f.session_id].server_conn_id,
                              RunCommand(f.session_id, f.command))>>, "read")
       ELSE UNCHANGED <<todo, hpc>>
    /\ UNCHANGED <<registry, next_session, role, server_name>>

\* ClientToProxy::ClientCommand
ClientCommand(c, f) ==
    /\ IF /\ f.session_id \in DOMAIN sessions
          /\ sessions[f.session_id].client_conn_id = c
       THEN Reply(c, <<Notify(sessions[f.session_id].server_conn_id,
                              RunCommand(f.session_id, f.command))>>, "read")
       ELSE UNCHANGED <<todo, hpc>>
    /\ UNCHANGED <<registry, next_session, role, server_name>>

\* mutant of DisconnectSession: the owner's session is left in the map
DisconnectSessionKeeps(c, f) ==
    /\ sessions' = sessions
    /\ IF /\ f.session_id \in DOMAIN sessions
          /\ sessions[f.session_id].client_conn_id = c
       THEN Reply(c, <<Notify(sessions[f.session_id].server_conn_id,
                              SessionClosed(f.session_id, "client closed session"))>>,
                  "read")
       ELSE UNCHANGED <<todo, hpc>>
    /\ UNCHANGED <<connections, conn_roles, servers, next_session, role, server_name>>

\* ClientToProxy::DisconnectSession: the session is removed before the
\* ownership test
DisconnectSession(c, f) ==
    /\ sessions' = IF f.session_id \in DOMAIN sessions
                   THEN Remove(sessions, f.session_id) ELSE sessions
    /\ IF /\ f.session_id \in DOMAIN sessions
          /\ sessions[f.session_id].client_conn_id = c
       THEN Reply(c, <<Notify(sessions[f.session_id].server_conn_id,
                              SessionClosed(f.session_id, "client closed session"))>>,
                  "read")
       ELSE UNCHANGED <<todo, hpc>>
    /\ UNCHANGED <<connections, conn_roles, servers, next_session, role, server_name>>

\* mutant of ClientActive: an auth_proxy after authentication is obeyed
ClientActiveReauth(c, f) ==
    IF ~ParsesAs(ClientToProxy, f) THEN Continue(c)
    ELSE CASE f.type = "list_servers" -> ListServers(c, f)
           [] f.type = "connect_server" -> ConnectServer(c, f)
           [] f.type = "client_command" -> ClientCommand(c, f)
           [] f.type = "disconnect_session" -> DisconnectSession(c, f)
           [] f.type = "auth_proxy" -> Unauthenticated(c, f)
           [] OTHER -> Continue(c)

\* Some(AuthRole::Client)
ClientActive(c, f) ==
    IF ~ParsesAs(ClientToProxy, f) THEN Continue(c)
    ELSE CASE f.type = "list_servers" -> ListServers(c, f)
           [] f.type = "connect_server" -> ConnectServer(c, f)
           [] f.type = "client_command" -> ClientCommand(c, f)
           [] f.type = "disconnect_session" -> DisconnectSession(c, f)
           [] OTHER -> Continue(c)

\* mutant of handle_socket: a frame that is not text is dispatched like text
handle_socketNoFilter(c, f) ==
    /\ hpc[c] = "read"
    /\ todo[c] = <<>>
    /\ CASE role[c] = NoRole -> Unauthenticated(c, f)
         [] role[c] = "server" /\ server_name[c] = NoName -> RegisterServer(c, f)
         [] role[c] = "server" -> ServerActive(c, f)
         [] OTHER -> ClientActive(c, f)
    /\ UNCHANGED <<proxy_password, turn_url_given, next_conn, outbox, writer>>

\* one turn of handle_socket's loop on the frame f read from c's socket
handle_socket(c, f) ==
    /\ hpc[c] = "read"
    /\ todo[c] = <<>>
    /\ CASE f.frame # "text" -> Continue(c)
         [] role[c] = NoRole -> Unauthenticated(c, f)
         [] role[c] = "server" /\ server_name[c] = NoName -> RegisterServer(c, f)
         [] role[c] = "server" -> ServerActive(c, f)
         [] OTHER -> ClientActive(c, f)
    /\ UNCHANGED <<proxy_password, turn_url_given, next_conn, outbox, writer>>

\* mutant of send_to_connection: the message is put at the front of the
\* channel
send_to_connectionFront(c) ==
    /\ todo[c] # <<>>
    /\ LET n == Head(todo[c])
       IN outbox' = IF n.to \in connections
                    THEN [outbox EXCEPT ![n.to] = <<n.msg>> \o @]
                    ELSE outbox
    /\ todo' = [todo EXCEPT ![c] = Tail(@)]
    /\ UNCHANGED <<proxy_password, turn_url_given, registry, next_conn, next_session,
                   hpc, role, server_name, writer>>

\* send_to_connection: the sender is looked up under the lock; a target
\* that is no longer in the map gets nothing
send_to_connection(c) ==
    /\ todo[c] # <<>>
    /\ LET n == Head(todo[c])
       IN outbox' = IF n.to \in connections
                    THEN [outbox EXCEPT ![n.to] = Append(@, n.msg)]
                    ELSE outbox
    /\ todo' = [todo EXCEPT ![c] = Tail(@)]
    /\ UNCHANGED <<proxy_password, turn_url_given, registry, next_conn, next_session,
                   hpc, role, server_name, writer>>

\* ws_rx.next() yields None or an error: the loop ends
SocketClosed(c) ==
    /\ hpc[c] = "read"
    /\ todo[c] = <<>>
    /\ hpc' = [hpc EXCEPT ![c] = "break"]
    /\ UNCHANGED <<proxy_password, turn_url_given, registry, next_conn, next_session,
                   role, server_name, todo, outbox, writer>>

\* mutant of AffectedSessions: the filter tests the server endpoint only
AffectedSessionsServerOnly(conn_id) ==
    {s \in DOMAIN sessions : sessions[s].server_conn_id = conn_id}

\* the sessions cleanup_connection collects for conn_id
AffectedSessions(conn_id) ==
    {s \in DOMAIN sessions : \/ sessions[s].server_conn_id = conn_id
                             \/ sessions[s].client_conn_id = conn_id}

\* mutant of ClosedNotification: the two branches are swapped
ClosedNotificationSwapped(conn_id, s) ==
    IF sessions[s].server_conn_id = conn_id
    THEN Notify(sessions[s].server_conn_id, SessionClosed(s, "client disconnected"))
    ELSE Notify(sessions[s].client_conn_id, SessionClosed(s, "server disconnected"))

\* the notification cleanup_connection pushes for a removed session
ClosedNotification(conn_id, s) ==
    IF sessions[s].server_conn_id = conn_id
    THEN Notify(sessions[s].client_conn_id, SessionClosed(s, "server disconnected"))
    ELSE Notify(sessions[s].server_conn_id, SessionClosed(s, "client disconnected"))

\* mutant of cleanup_connection: the registration is left in the map
cleanup_connectionKeepsName(c) ==
    /\ hpc[c] = "break"
    /\ todo[c] = <<>>
    /\ connections' = connections \ {c}
    /\ conn_roles' = Remove(conn_roles, c)
    /\ servers' = servers
    /\ sessions' = [s \in DOMAIN sessions \ AffectedSessions(c) |-> sessions[s]]
    /\ \E order \in Orders(AffectedSessions(c)) :
          todo' = [todo EXCEPT ![c] =
                     [i \in 1..Len(order) |-> ClosedNotification(c, order[i])]]
    /\ hpc' = [hpc EXCEPT ![c] = "notify"]
    /\ UNCHANGED <<proxy_password, turn_url_given, next_conn, next_session, role,
                   server_name, outbox, writer>>

\* mutant of cleanup_connection: the sessions are removed and nobody is told
cleanup_connectionSilent(c) ==
    /\ hpc[c] = "break"
    /\ todo[c] = <<>>
    /\ connections' = connections \ {c}
    /\ conn_roles' = Remove(conn_roles, c)
    /\ servers' = IF server_name[c] # NoName THEN Remove(servers, server_name[c])
                  ELSE servers
    /\ sessions' = [s \in DOMAIN sessions \ AffectedSessions(c) |-> sessions[s]]
    /\ todo' = [todo EXCEPT ![c] = <<>>]
    /\ hpc' = [hpc EXCEPT ![c] = "notify"]
    /\ UNCHANGED <<proxy_password, turn_url_given, next_conn, next_session, role,
                   server_name, outbox, writer>>

\* cleanup_connection, the section under the lock
cleanup_connection(c) ==
    /\ hpc[c] = "break"
    /\ todo[c] = <<>>
    /\ connections' = connections \ {c}
    /\ conn_roles' = Remove(conn_roles, c)
    /\ servers' = IF server_name[c] # NoName THEN Remove(servers, server_name[c])
                  ELSE servers
    /\ sessions' = [s \in DOMAIN sessions \ AffectedSessions(c) |-> sessions[s]]
    /\ \E order \in Orders(AffectedSessions(c)) :
          todo' = [todo EXCEPT ![c] =
                     [i \in 1..Len(order) |-> ClosedNotification(c, order[i])]]
    /\ hpc' = [hpc EXCEPT ![c] = "notify"]
    /\ UNCHANGED <<proxy_password, turn_url_given, next_conn, next_session, role,
                   server_name, outbox, writer>>

\* writer.abort() and the return of handle_socket: the writer stops, the
\* channel's receiver is dropped with whatever it still holds, the locals go
WriterAbort(c) ==
    /\ hpc[c] = "notify"
    /\ todo[c] = <<>>
    /\ writer' = [writer EXCEPT ![c] = "aborted"]
    /\ outbox' = [outbox EXCEPT ![c] = <<>>]
    /\ role' = [role EXCEPT ![c] = NoRole]
    /\ server_name' = [server_name EXCEPT ![c] = NoName]
    /\ hpc' = [hpc EXCEPT ![c] = "closed"]
    /\ UNCHANGED <<proxy_password, turn_url_given, registry, next_conn, next_session,
                   todo>>

\* the writer task: one frame from the channel to the socket
WriterSend(c) ==
    /\ writer[c] = "running"
    /\ outbox[c] # <<>>
    /\ outbox' = [outbox EXCEPT ![c] = Tail(@)]
    /\ UNCHANGED <<proxy_password, turn_url_given, registry, next_conn, next_session,
                   hpc, role, server_name, todo, writer>>

\* ------------------------------------------------- frames a peer may send
BinaryFrame == [frame |-> "binary"]

PeerFrames ==
    {[frame |-> "binary"]}
    \cup {[frame |-> "text", type |-> "not json"]}
    \cup {[frame |-> "text", type |-> "auth_proxy", proxy_password |-> pw, role |-> r] :
            pw \in ProxyPasswords, r \in Roles}
    \cup {[frame |-> "text", type |-> "register_server", server_name |-> n,
           server_password |-> pw] : n \in ServerNames, pw \in RegisterPasswords}
    \cup {[frame |-> "text", type |-> "list_servers"]}
    \cup {[frame |-> "text", type |-> "connect_server", server_name |-> n,
           server_password |-> pw, use_p2p |-> b] :
            n \in ServerNames, pw \in ServerPasswords, b \in BOOLEAN}
    \cup {[frame |-> "text", type |-> "client_command", session_id |-> s,
           command |-> "ls"] : s \in NamedSessionIds}
    \cup {[frame |-> "text", type |-> "disconnect_session", session_id |-> s] :
            s \in NamedSessionIds}
    \cup {[frame |-> "text", type |-> "command_output", session_id |-> s,
           output |-> "out", done |-> TRUE] : s \in NamedSessionIds}
    \cup {[frame |-> "text", type |-> "server_disconnect_session", session_id |-> s] :
            s \in NamedSessionIds}
    \* PeerToProxy of the client peer and ServerToProxy of the server peer
    \cup {[frame |-> "text", type |-> "signal", session_id |-> s,
           signal |-> [kind |-> "sdp_offer", sdp |-> "v=0"]] : s \in NamedSessionIds}
    \cup {[frame |-> "text", type |-> "server_signal", session_id |-> s,
           signal |-> [kind |-> "sdp_answer", sdp |-> "v=0"]] : s \in NamedSessionIds}
    \cup {[frame |-> "text", type |-> "relay_data", session_id |-> s,
           payload |-> "envelope"] : s \in NamedSessionIds}

\* no writer task has a frame left to write
WritersIdle == \A c \in ConnIds : outbox[c] = <<>>

\* a step of the proxy in which the peers do nothing
Env(A) == A /\ UNCHANGED <<mutex, peer_vars>>

\* The registry and the handlers never read a channel, so letting every
\* writer run as soon as it has a frame loses none of their states.
Next ==
    \/ \E c \in ConnIds : Env(WriterSend(c))
    \/ WritersIdle /\ Env(Accept)
    \/ WritersIdle /\ \E c \in ConnIds : \E f \in PeerFrames : Env(handle_socket(c, f))
    \/ WritersIdle /\ \E c \in ConnIds : Env(send_to_connection(c))
    \/ WritersIdle /\ \E c \in ConnIds : Env(SocketClosed(c))
    \/ WritersIdle /\ \E c \in ConnIds : Env(cleanup_connection(c))
    \/ WritersIdle /\ \E c \in ConnIds : Env(WriterAbort(c))

Spec == Init /\ [][Next]_vars

\* ------------------------------------------------- the peers' wire schemas
\* rs-peer-workspace-shared relay::ProxyToPeer, what the client peer parses;
\* an Option field may be missing
ProxyToPeer ==
    [auth_ok          |-> {"role"},
     auth_error       |-> {"reason"},
     registered       |-> {"server_name"},
     connection_error |-> {"reason"},
     connected        |-> {"session_id", "server_name", "via_p2p"},
     peer_joined      |-> {"session_id", "peer_id", "via_p2p"},
     session_closed   |-> {"session_id", "reason"},
     peer_signal      |-> {"session_id", "from", "signal"},
     relay_data       |-> {"session_id", "payload"}]

\* ProxyToPeer of the server peer's main.rs
ServerProxyToPeer ==
    [auth_ok          |-> {"role"},
     auth_error       |-> {"reason"},
     registered       |-> {"server_name"},
     connection_error |-> {"reason"},
     client_connected |-> {"session_id", "client_id", "via_p2p"},
     run_command      |-> {"session_id", "command"},
     session_closed   |-> {"session_id", "reason"},
     peer_signal      |-> {"session_id", "from", "signal"}]

\* an Option<TurnCredentials> field: missing and null both read as None
TurnOf(f) == IF "turn" \in DOMAIN f THEN f.turn ELSE NoTurn

\* relay::PeerToProxy and the server's ClientToProxy / ServerToProxy, as the
\* peers serialize them
AuthProxy(pw, r) ==
    [frame |-> "text", type |-> "auth_proxy", proxy_password |-> pw, role |-> r]
RegisterServerFrame(name, pw) ==
    [frame |-> "text", type |-> "register_server", server_name |-> name,
     server_password |-> pw]
ConnectServerFrame(name, pw, p2p) ==
    [frame |-> "text", type |-> "connect_server", server_name |-> name,
     server_password |-> pw, use_p2p |-> p2p]
DisconnectSessionFrame(sid) ==
    [frame |-> "text", type |-> "disconnect_session", session_id |-> sid]
Signal(sid, signal) ==
    [frame |-> "text", type |-> "signal", session_id |-> sid, signal |-> signal]
RelayData(sid, payload) ==
    [frame |-> "text", type |-> "relay_data", session_id |-> sid,
     payload |-> payload]
CommandOutputFrame(sid, output) ==
    [frame |-> "text", type |-> "command_output", session_id |-> sid,
     output |-> output, done |-> TRUE]
ServerSignal(sid, signal) ==
    [frame |-> "text", type |-> "server_signal", session_id |-> sid,
     signal |-> signal]

SdpOffer == [kind |-> "sdp_offer", sdp |-> "v=0 offer"]
SdpAnswer == [kind |-> "sdp_answer", sdp |-> "v=0 answer"]
IceCandidate == [kind |-> "ice_candidate", candidate |-> "candidate:1"]

\* ProxyToPeer::PeerSignal, as a proxy serializes it
PeerSignal(sid, from, signal) ==
    [frame |-> "text", type |-> "peer_signal", session_id |-> sid, from |-> from,
     signal |-> signal]

\* app::AppEnvelope around an RpcRequest, and serde_json::to_vec of it
RpcRequest(r) == [request_id |-> r, action |-> "list_roots"]
RequestEnvelope(request) ==
    [message_id |-> "fresh",
     payload |-> [kind |-> "rpc_request", request_id |-> request.request_id,
                  action |-> request.action]]
ToVec(envelope) == [json |-> envelope]

\* serde_json::from_slice::<AppEnvelope>: does it succeed on these bytes
IsEnvelope(bytes) ==
    /\ DOMAIN bytes = {"json"}
    /\ {"message_id", "payload"} \subseteq DOMAIN bytes.json
    /\ "kind" \in DOMAIN bytes.json.payload
    /\ \/ /\ bytes.json.payload.kind = "rpc_request"
          /\ {"request_id", "action"} \subseteq DOMAIN bytes.json.payload
       \/ /\ bytes.json.payload.kind = "rpc_response"
          /\ {"request_id", "result"} \subseteq DOMAIN bytes.json.payload

\* ConnectionEvent, as the task sends it on event_tx
EventStatus(message) == [event |-> "Status", message |-> message]
EventTransport(message) == [event |-> "Transport", message |-> message]
EventConnected == [event |-> "Connected"]
EventRpcResponse(response) == [event |-> "RpcResponse", response |-> response]
EventError(message) == [event |-> "Error", message |-> message]
EventClosed(reason) == [event |-> "Closed", reason |-> reason]

\* ------------------------------------------------------- the client peer
\* connection_task up to its loop: the socket is connected (the proxy
\* accepts it), auth_proxy and connect_server are queued for the writer
ClientConnect ==
    /\ client_task = "start"
    /\ Accept
    /\ conn_of' = [conn_of EXCEPT !["client"] = next_conn]
    /\ client_ws_send' = <<AuthProxy("p", "client"),
                           ConnectServerFrame("alpha", "s1", prefer_p2p)>>
    /\ client_task' = "run"
    /\ UNCHANGED <<mutex, up, down, prefer_p2p, active_session, peer_connection,
                   data_channel, p2p_ready, command_rx, events, next_request, app,
                   rpc_sent, dc_c2s, server_vars>>

\* the writer task spawned by connection_task; when connection_task has
\* returned the runtime is dropped and the writer with it, before or after
\* it has written what was queued
ClientWriter ==
    /\ \/ client_task = "run"
       \/ client_task = "done" /\ hpc[conn_of["client"]] = "read"
    /\ client_ws_send # <<>>
    /\ up' = [up EXCEPT ![conn_of["client"]] = Append(@, Head(client_ws_send))]
    /\ client_ws_send' = Tail(client_ws_send)
    /\ UNCHANGED <<proxy_vars, mutex, conn_of, down, client_task, prefer_p2p,
                   active_session, peer_connection, data_channel, p2p_ready,
                   command_rx, events, next_request, app, rpc_sent, dc_c2s,
                   server_vars>>

\* mutant of ClientOnConnected: P2P is attempted whenever via_p2p is set,
\* with or without TURN credentials
ClientOnConnectedAnyTurn(f) ==
    /\ active_session' = f.session_id
    /\ client_task' = client_task
    /\ IF f.via_p2p
       THEN /\ events' = events \o <<EventConnected,
                                     EventTransport("Attempting P2P via TURN")>>
            /\ data_channel' = TRUE
            /\ client_ws_send' = Append(client_ws_send, Signal(f.session_id, SdpOffer))
            /\ peer_connection' = [state |-> "open", session_id |-> f.session_id,
                                   remote_description |-> "none", candidates |-> {}]
       ELSE /\ events' = events \o <<EventConnected,
                                     EventTransport("WebSocket relay")>>
            /\ UNCHANGED <<data_channel, client_ws_send, peer_connection>>

\* ProxyToPeer::Connected
ClientOnConnected(f) ==
    /\ active_session' = f.session_id
    /\ client_task' = client_task
    /\ IF f.via_p2p /\ TurnOf(f) # NoTurn
       THEN /\ events' = events \o <<EventConnected,
                                     EventTransport("Attempting P2P via TURN")>>
            /\ data_channel' = TRUE
            /\ client_ws_send' = Append(client_ws_send, Signal(f.session_id, SdpOffer))
            /\ peer_connection' = [state |-> "open", session_id |-> f.session_id,
                                   remote_description |-> "none", candidates |-> {}]
       ELSE /\ events' = events \o <<EventConnected,
                                     EventTransport("WebSocket relay")>>
            /\ UNCHANGED <<data_channel, client_ws_send, peer_connection>>

\* mutant of ClientOnPeerSignal: an offer is applied like an answer
ClientOnPeerSignalTakesOffer(f) ==
    /\ peer_connection' =
          IF \/ f.session_id # active_session
             \/ f.from # "server"
             \/ peer_connection = NoPeerConnection
          THEN peer_connection
          ELSE CASE f.signal.kind \in {"sdp_answer", "sdp_offer"} ->
                      [peer_connection EXCEPT !.remote_description = f.signal.sdp]
                 [] f.signal.kind = "ice_candidate" ->
                      [peer_connection EXCEPT !.candidates = @ \cup {f.signal.candidate}]
                 [] OTHER -> peer_connection
    /\ UNCHANGED <<client_task, active_session, data_channel, client_ws_send, events>>

\* ProxyToPeer::PeerSignal
ClientOnPeerSignal(f) ==
    /\ peer_connection' =
          IF \/ f.session_id # active_session
             \/ f.from # "server"
             \/ peer_connection = NoPeerConnection
          THEN peer_connection
          ELSE CASE f.signal.kind = "sdp_answer" ->
                      [peer_connection EXCEPT !.remote_description = f.signal.sdp]
                 [] f.signal.kind = "ice_candidate" ->
                      [peer_connection EXCEPT !.candidates = @ \cup {f.signal.candidate}]
                 [] OTHER -> peer_connection
    /\ UNCHANGED <<client_task, active_session, data_channel, client_ws_send, events>>

\* ProxyToPeer::RelayData
ClientOnRelayData(f) ==
    /\ events' =
          IF /\ f.session_id = active_session
             /\ IsEnvelope(f.payload)
             /\ f.payload.json.payload.kind = "rpc_response"
          THEN Append(events, EventRpcResponse(
                   [request_id |-> f.payload.json.payload.request_id,
                    result |-> f.payload.json.payload.result]))
          ELSE events
    /\ UNCHANGED <<client_task, active_session, peer_connection, data_channel,
                   client_ws_send>>

\* mutant of ClientInbound: session_closed ends the task whatever session
\* it names
ClientInboundAnyClosed(f) ==
    IF ~ParsesAs(ProxyToPeer, f)
    THEN UNCHANGED <<client_task, active_session, peer_connection, data_channel,
                     client_ws_send, events>>
    ELSE CASE f.type = "auth_ok" ->
                /\ events' = Append(events, EventStatus("authenticated to proxy"))
                /\ UNCHANGED <<client_task, active_session, peer_connection,
                               data_channel, client_ws_send>>
           [] f.type \in {"auth_error", "connection_error"} ->
                /\ events' = Append(events, EventError(f.reason))
                /\ client_task' = "done"
                /\ UNCHANGED <<active_session, peer_connection, data_channel,
                               client_ws_send>>
           [] f.type = "connected" -> ClientOnConnected(f)
           [] f.type = "peer_signal" -> ClientOnPeerSignal(f)
           [] f.type = "relay_data" -> ClientOnRelayData(f)
           [] f.type = "session_closed" ->
                /\ events' = Append(events, EventClosed(f.reason))
                /\ client_task' = "done"
                /\ UNCHANGED <<active_session, peer_connection, data_channel,
                               client_ws_send>>
           [] OTHER ->
                UNCHANGED <<client_task, active_session, peer_connection,
                            data_channel, client_ws_send, events>>

\* the `inbound` arm of connection_task's select!, on the frame f
ClientInbound(f) ==
    IF ~ParsesAs(ProxyToPeer, f)
    THEN UNCHANGED <<client_task, active_session, peer_connection, data_channel,
                     client_ws_send, events>>
    ELSE CASE f.type = "auth_ok" ->
                /\ events' = Append(events, EventStatus("authenticated to proxy"))
                /\ UNCHANGED <<client_task, active_session, peer_connection,
                               data_channel, client_ws_send>>
           [] f.type \in {"auth_error", "connection_error"} ->
                /\ events' = Append(events, EventError(f.reason))
                /\ client_task' = "done"
                /\ UNCHANGED <<active_session, peer_connection, data_channel,
                               client_ws_send>>
           [] f.type = "connected" -> ClientOnConnected(f)
           [] f.type = "peer_signal" -> ClientOnPeerSignal(f)
           [] f.type = "relay_data" -> ClientOnRelayData(f)
           [] f.type = "session_closed" /\ f.session_id = active_session ->
                /\ events' = Append(events, EventClosed(f.reason))
                /\ client_task' = "done"
                /\ UNCHANGED <<active_session, peer_connection, data_channel,
                               client_ws_send>>
           [] OTHER ->
                UNCHANGED <<client_task, active_session, peer_connection,
                            data_channel, client_ws_send, events>>

\* read.next() yields the next frame of the socket
ClientRecv ==
    /\ client_task = "run"
    /\ down[conn_of["client"]] # <<>>
    /\ ClientInbound(Head(down[conn_of["client"]]))
    /\ down' = [down EXCEPT ![conn_of["client"]] = Tail(@)]
    /\ UNCHANGED <<proxy_vars, mutex, conn_of, up, prefer_p2p, p2p_ready, command_rx,
                   next_request, app, rpc_sent, dc_c2s, server_vars>>

\* the host application: command_tx.send(ConnectionCommand::SendRpc(..))
HostSendRpc ==
    /\ client_task # "done"
    /\ next_request <= MaxRequests
    /\ command_rx' = Append(command_rx, [command |-> "SendRpc",
                                         request |-> RpcRequest(next_request)])
    /\ next_request' = next_request + 1
    /\ UNCHANGED <<proxy_vars, mutex, net_vars, client_task, prefer_p2p, active_session,
                   peer_connection, data_channel, p2p_ready, client_ws_send,
                   events, app, rpc_sent, dc_c2s, server_vars>>

\* mutant of ClientSendRpc: the data channel branch falls through to the relay
ClientSendRpcBoth(request) ==
    LET payload == ToVec(RequestEnvelope(request))
    IN /\ IF active_session = NoSession
          THEN UNCHANGED <<client_ws_send, dc_c2s, rpc_sent>>
          ELSE /\ rpc_sent' = rpc_sent \cup {request.request_id}
               /\ dc_c2s' = IF p2p_ready /\ data_channel
                            THEN Append(dc_c2s, payload) ELSE dc_c2s
               /\ client_ws_send' =
                     Append(client_ws_send, RelayData(active_session, payload))
       /\ UNCHANGED <<client_task, peer_connection>>

\* the host application: command_tx.send(ConnectionCommand::Disconnect)
HostDisconnect ==
    /\ client_task # "done"
    /\ \A i \in DOMAIN command_rx : command_rx[i].command # "Disconnect"
    /\ command_rx' = Append(command_rx, [command |-> "Disconnect"])
    /\ UNCHANGED <<proxy_vars, mutex, net_vars, client_task, prefer_p2p, active_session,
                   peer_connection, data_channel, p2p_ready, client_ws_send,
                   events, next_request, app, rpc_sent, dc_c2s, server_vars>>

\* mutant of ClientSendRpc: without a session the envelope is relayed all
\* the same
ClientSendRpcUnbound(request) ==
    LET payload == ToVec(RequestEnvelope(request))
    IN /\ IF active_session = NoSession
          THEN /\ client_ws_send' =
                     Append(client_ws_send, RelayData(active_session, payload))
               /\ UNCHANGED <<dc_c2s, rpc_sent>>
          ELSE /\ rpc_sent' = rpc_sent \cup {request.request_id}
               /\ IF p2p_ready /\ data_channel
                  THEN /\ dc_c2s' = Append(dc_c2s, payload)
                       /\ client_ws_send' = client_ws_send
                  ELSE /\ client_ws_send' =
                             Append(client_ws_send, RelayData(active_session, payload))
                       /\ dc_c2s' = dc_c2s
       /\ UNCHANGED <<client_task, peer_connection>>

\* ConnectionCommand::SendRpc: the data channel when it is ready, else relay
ClientSendRpc(request) ==
    LET payload == ToVec(RequestEnvelope(request))
    IN /\ IF active_session = NoSession
          THEN UNCHANGED <<client_ws_send, dc_c2s, rpc_sent>>
          ELSE /\ rpc_sent' = rpc_sent \cup {request.request_id}
               /\ IF p2p_ready /\ data_channel
                  THEN /\ dc_c2s' = Append(dc_c2s, payload)
                       /\ client_ws_send' = client_ws_send
                  ELSE /\ client_ws_send' =
                             Append(client_ws_send, RelayData(active_session, payload))
                       /\ dc_c2s' = dc_c2s
       /\ UNCHANGED <<client_task, peer_connection>>

\* mutant of ClientDisconnect: the peer connection is not closed
ClientDisconnectKeepsPc ==
    /\ client_ws_send' = IF active_session # NoSession
                         THEN Append(client_ws_send,
                                     DisconnectSessionFrame(active_session))
                         ELSE client_ws_send
    /\ peer_connection' = peer_connection
    /\ client_task' = "done"
    /\ UNCHANGED <<dc_c2s, rpc_sent>>

\* ConnectionCommand::Disconnect
ClientDisconnect ==
    /\ client_ws_send' = IF active_session # NoSession
                         THEN Append(client_ws_send,
                                     DisconnectSessionFrame(active_session))
                         ELSE client_ws_send
    /\ peer_connection' = IF peer_connection # NoPeerConnection
                          THEN [peer_connection EXCEPT !.state = "closed"]
                          ELSE peer_connection
    /\ client_task' = "done"
    /\ UNCHANGED <<dc_c2s, rpc_sent>>

\* the `command` arm of connection_task's select!
ClientCommandArm ==
    /\ client_task = "run"
    /\ command_rx # <<>>
    /\ IF Head(command_rx).command = "SendRpc"
       THEN ClientSendRpc(Head(command_rx).request)
       ELSE ClientDisconnect
    /\ command_rx' = Tail(command_rx)
    /\ UNCHANGED <<proxy_vars, mutex, net_vars, prefer_p2p, active_session, data_channel,
                   p2p_ready, events, next_request, app, server_vars>>

\* ------------------------------------------------------- the server peer
\* main up to its loop: the socket is connected, auth_proxy and
\* register_server are queued for the writer
ServerConnect ==
    /\ server_task = "start"
    /\ Accept
    /\ conn_of' = [conn_of EXCEPT !["server"] = next_conn]
    /\ server_ws_send' = <<AuthProxy("p", "server"),
                           RegisterServerFrame("alpha", "s1")>>
    /\ server_task' = "run"
    /\ UNCHANGED <<mutex, up, down, client_vars, p2p_meta, peer_connections>>

\* the writer task spawned by main
ServerWriter ==
    /\ server_task = "run"
    /\ server_ws_send # <<>>
    /\ up' = [up EXCEPT ![conn_of["server"]] = Append(@, Head(server_ws_send))]
    /\ server_ws_send' = Tail(server_ws_send)
    /\ UNCHANGED <<proxy_vars, mutex, conn_of, down, client_vars, server_task, p2p_meta,
                   peer_connections>>

\* a peer connection that create_peer_connection has just returned: no
\* description, no candidate, and on its data channel nothing received and
\* nothing sent
FreshConnection ==
    [remote_description |-> "none", candidates |-> {}, inbox |-> <<>>, sent |-> <<>>]

\* execute_command: the shell's combined output for the command
execute_command(command) == [output_of |-> command]

\* mutant of handle_client_signal: every signal gets a connection of its own
handle_client_signalFresh(sid, signal) ==
    LET pc == FreshConnection
    IN CASE signal.kind = "sdp_offer" ->
              /\ peer_connections' =
                    Insert(peer_connections, sid,
                           [pc EXCEPT !.remote_description = signal.sdp])
              /\ server_ws_send' = Append(server_ws_send, ServerSignal(sid, SdpAnswer))
         [] signal.kind = "ice_candidate" ->
              /\ peer_connections' =
                    Insert(peer_connections, sid,
                           [pc EXCEPT !.candidates = @ \cup {signal.candidate}])
              /\ server_ws_send' = server_ws_send
         [] OTHER ->
              /\ peer_connections' = Insert(peer_connections, sid, pc)
              /\ server_ws_send' = server_ws_send

\* handle_client_signal: the session's connection is created on first use
handle_client_signal(sid, signal) ==
    LET pc == IF sid \in DOMAIN peer_connections THEN peer_connections[sid]
              ELSE FreshConnection
    IN CASE signal.kind = "sdp_offer" ->
              /\ peer_connections' =
                    Insert(peer_connections, sid,
                           [pc EXCEPT !.remote_description = signal.sdp])
              /\ server_ws_send' = Append(server_ws_send, ServerSignal(sid, SdpAnswer))
         [] signal.kind = "ice_candidate" ->
              /\ peer_connections' =
                    Insert(peer_connections, sid,
                           [pc EXCEPT !.candidates = @ \cup {signal.candidate}])
              /\ server_ws_send' = server_ws_send
         [] OTHER ->
              /\ peer_connections' = Insert(peer_connections, sid, pc)
              /\ server_ws_send' = server_ws_send

\* mutant of ServerInbound: a client's signal is handled whatever the
\* session's metadata says
ServerInboundAnySession(f) ==
    IF ~ParsesAs(ServerProxyToPeer, f)
    THEN UNCHANGED <<server_task, p2p_meta, peer_connections, server_ws_send>>
    ELSE CASE f.type \in {"auth_error", "connection_error"} ->
                /\ server_task' = "done"
                /\ UNCHANGED <<p2p_meta, peer_connections, server_ws_send>>
           [] f.type = "client_connected" ->
                /\ p2p_meta' = Insert(p2p_meta, f.session_id,
                                      [turn |-> TurnOf(f), use_p2p |-> f.via_p2p])
                /\ UNCHANGED <<server_task, peer_connections, server_ws_send>>
           [] f.type = "run_command" ->
                /\ server_ws_send' =
                      Append(server_ws_send,
                             CommandOutputFrame(f.session_id, execute_command(f.command)))
                /\ UNCHANGED <<server_task, p2p_meta, peer_connections>>
           [] /\ f.type = "peer_signal"
              /\ f.from = "client" ->
                /\ handle_client_signal(f.session_id, f.signal)
                /\ UNCHANGED <<server_task, p2p_meta>>
           [] f.type = "session_closed" ->
                /\ p2p_meta' = [s \in DOMAIN p2p_meta \ {f.session_id} |-> p2p_meta[s]]
                /\ peer_connections' = [s \in DOMAIN peer_connections \ {f.session_id}
                                           |-> peer_connections[s]]
                /\ UNCHANGED <<server_task, server_ws_send>>
           [] OTHER ->
                UNCHANGED <<server_task, p2p_meta, peer_connections, server_ws_send>>

\* one turn of main's loop on the frame f
ServerInbound(f) ==
    IF ~ParsesAs(ServerProxyToPeer, f)
    THEN UNCHANGED <<server_task, p2p_meta, peer_connections, server_ws_send>>
    ELSE CASE f.type \in {"auth_error", "connection_error"} ->
                /\ server_task' = "done"
                /\ UNCHANGED <<p2p_meta, peer_connections, server_ws_send>>
           [] f.type = "client_connected" ->
                /\ p2p_meta' = Insert(p2p_meta, f.session_id,
                                      [turn |-> TurnOf(f), use_p2p |-> f.via_p2p])
                /\ UNCHANGED <<server_task, peer_connections, server_ws_send>>
           [] f.type = "run_command" ->
                /\ server_ws_send' =
                      Append(server_ws_send,
                             CommandOutputFrame(f.session_id, execute_command(f.command)))
                /\ UNCHANGED <<server_task, p2p_meta, peer_connections>>
           [] /\ f.type = "peer_signal"
              /\ f.from = "client"
              /\ f.session_id \in DOMAIN p2p_meta
              /\ p2p_meta[f.session_id].use_p2p ->
                /\ handle_client_signal(f.session_id, f.signal)
                /\ UNCHANGED <<server_task, p2p_meta>>
           [] f.type = "session_closed" ->
                /\ p2p_meta' = [s \in DOMAIN p2p_meta \ {f.session_id} |-> p2p_meta[s]]
                /\ peer_connections' = [s \in DOMAIN peer_connections \ {f.session_id}
                                           |-> peer_connections[s]]
                /\ UNCHANGED <<server_task, server_ws_send>>
           [] OTHER ->
                UNCHANGED <<server_task, p2p_meta, peer_connections, server_ws_send>>

\* read.next() yields the next frame of the socket
ServerRecv ==
    /\ server_task = "run"
    /\ down[conn_of["server"]] # <<>>
    /\ ServerInbound(Head(down[conn_of["server"]]))
    /\ down' = [down EXCEPT ![conn_of["server"]] = Tail(@)]
    /\ UNCHANGED <<proxy_vars, mutex, conn_of, up, client_vars>>

\* ------------------------------------- the proxy between the two peers
\* ws_rx.next() yields the next frame the peer wrote
ProxyRead(c) ==
    /\ up[c] # <<>>
    /\ handle_socket(c, Head(up[c]))
    /\ up' = [up EXCEPT ![c] = Tail(@)]
    /\ UNCHANGED <<mutex, conn_of, down, client_vars, server_vars>>

\* the writer task puts the frame on the peer's socket
ProxyWrite(c) ==
    /\ outbox[c] # <<>>
    /\ WriterSend(c)
    /\ down' = [down EXCEPT ![c] = Append(@, Head(outbox[c]))]
    /\ UNCHANGED <<mutex, conn_of, up, client_vars, server_vars>>

\* the peer's task has ended and dropped its socket; the proxy has read
\* every frame the peer wrote
PeerGone(c) ==
    /\ \/ conn_of["client"] = c /\ client_task = "done"
       \/ conn_of["server"] = c /\ server_task = "done"
    /\ up[c] = <<>>
    /\ SocketClosed(c)
    /\ UNCHANGED <<mutex, peer_vars>>

\* The signalling frames never pass the proxy and the server peer never
\* reads a client_connected it can parse, so neither peer gets the other's
\* description: the data channel's on_open does not fire in this system.
E2ENext ==
    \/ ServerConnect
    \/ ClientConnect
    \/ ServerWriter
    \/ ClientWriter
    \/ ServerRecv
    \/ ClientRecv
    \/ HostSendRpc
    \/ ClientCommandArm
    \/ \E c \in ConnIds : ProxyRead(c)
    \/ \E c \in ConnIds : Env(send_to_connection(c))
    \/ \E c \in ConnIds : ProxyWrite(c)
    \/ \E c \in ConnIds : PeerGone(c)
    \/ \E c \in ConnIds : Env(cleanup_connection(c))
    \/ \E c \in ConnIds : Env(WriterAbort(c))

E2EInit == ProxyInit /\ PeerInit /\ prefer_p2p \in BOOLEAN

\* every task runs when it can; the host application owes nothing
E2EFairness ==
    /\ WF_vars(ServerConnect) /\ WF_vars(ClientConnect)
    /\ WF_vars(ServerWriter) /\ WF_vars(ClientWriter)
    /\ WF_vars(ServerRecv) /\ WF_vars(ClientRecv)
    /\ WF_vars(ClientCommandArm)
    /\ \A c \in ConnIds :
          /\ WF_vars(ProxyRead(c))
          /\ WF_vars(Env(send_to_connection(c)))
          /\ WF_vars(ProxyWrite(c))
          /\ WF_vars(PeerGone(c))
          /\ WF_vars(Env(cleanup_connection(c)))
          /\ WF_vars(Env(WriterAbort(c)))

\* one server peer, one client peer and the proxy, started in any order
E2E == E2EInit /\ [][E2ENext]_vars /\ E2EFairness


\* the two peers and the proxy, with a host that may leave at any time and
\* sends no request
CancelNext ==
    \/ ServerConnect
    \/ ClientConnect
    \/ ServerWriter
    \/ ClientWriter
    \/ ServerRecv
    \/ ClientRecv
    \/ HostDisconnect
    \/ ClientCommandArm
    \/ \E c \in ConnIds : ProxyRead(c)
    \/ \E c \in ConnIds : Env(send_to_connection(c))
    \/ \E c \in ConnIds : ProxyWrite(c)
    \/ \E c \in ConnIds : PeerGone(c)
    \/ \E c \in ConnIds : Env(cleanup_connection(c))
    \/ \E c \in ConnIds : Env(WriterAbort(c))

Cancel == E2EInit /\ [][CancelNext]_vars /\ E2EFairness


\* -------------------------------------------- the proxy, writers unordered
\* the connections and the channel lengths of the specification Race
RaceConns == 2
MaxQueue == 1

\* no channel holds MaxQueue frames yet
QueuesShort == \A c \in ConnIds : Len(outbox[c]) < MaxQueue

\* The proxy as in Spec, on RaceConns connections, with every writer task
\* scheduled freely against the handlers: a writer may still hold frames
\* when its handler calls writer.abort().
RaceNext ==
    \/ \E c \in ConnIds : Env(WriterSend(c))
    \/ next_conn <= RaceConns /\ Env(Accept)
    \/ QueuesShort /\ \E c \in ConnIds : \E f \in PeerFrames : Env(handle_socket(c, f))
    \/ \E c \in ConnIds : Env(send_to_connection(c))
    \/ \E c \in ConnIds : Env(SocketClosed(c))
    \/ \E c \in ConnIds : Env(cleanup_connection(c))
    \/ \E c \in ConnIds : Env(WriterAbort(c))

Race == Init /\ [][RaceNext]_vars

\* ------------------------------------------- the proxy, every frame numbered
\* the connections and the frames of the specification Order
OrderConns == 2
MaxFrames == 6

\* the application data of the n-th frame written to the proxy, by the peer
\* of connection c
Numbered(c, n) == [from |-> c, n |-> n]

\* what the peer of connection c may write as the n-th frame
OrderFrames(c, n) ==
    {AuthProxy("p", r) : r \in Roles}
    \cup {RegisterServerFrame("alpha", "s1"), ConnectServerFrame("alpha", "s1", FALSE)}
    \cup {[frame |-> "text", type |-> "client_command", session_id |-> s,
           command |-> Numbered(c, n)] : s \in NamedSessionIds}
    \cup {[frame |-> "text", type |-> "command_output", session_id |-> s,
           output |-> Numbered(c, n), done |-> FALSE] : s \in NamedSessionIds}

\* ws_rx.next() yields the next frame of c's socket, the next_request-th
\* frame the proxy reads
OrderRead(c) ==
    /\ next_request <= MaxFrames
    /\ \E f \in OrderFrames(c, next_request) : handle_socket(c, f)
    /\ next_request' = next_request + 1
    /\ UNCHANGED <<mutex, net_vars, client_task, prefer_p2p, active_session,
                   peer_connection, data_channel, p2p_ready, client_ws_send,
                   command_rx, events, app, rpc_sent, dc_c2s, server_vars>>

\* The proxy with its writers scheduled freely; down[c] is everything the
\* writer of c has put on the socket, in order.
OrderNext ==
    \/ next_conn <= OrderConns /\ Env(Accept)
    \/ \E c \in ConnIds : OrderRead(c)
    \/ \E c \in ConnIds : Env(send_to_connection(c))
    \/ \E c \in ConnIds : ProxyWrite(c)
    \/ \E c \in ConnIds : Env(SocketClosed(c))
    \/ \E c \in ConnIds : Env(cleanup_connection(c))
    \/ \E c \in ConnIds : Env(WriterAbort(c))

Order == Init /\ [][OrderNext]_vars

\* ------------------------------------------- the client peer and its proxy
\* the events of one run of connection_task in the specification ClientPeer
MaxEvents == 5

\* AppEnvelope around an RpcResponse, as the serving peer serializes it
ResponseEnvelope(r) ==
    [message_id |-> "fresh",
     payload |-> [kind |-> "rpc_response", request_id |-> r, result |-> "ok"]]

\* what a proxy may write to the client peer's socket
ProxyToClientFrames ==
    {[frame |-> "binary"], AuthOk("client"), ConnectionError("unknown server name")}
    \cup {Connected(s, "alpha", b, t) :
            s \in SessionIds, b \in BOOLEAN, t \in {NoTurn, TurnCredentials}}
    \cup {PeerSignal(s, "server", g) :
            s \in SessionIds, g \in {SdpOffer, SdpAnswer, IceCandidate}}
    \cup {PeerSignal(s, "client", SdpAnswer) : s \in SessionIds}
    \cup {[frame |-> "text", type |-> "relay_data", session_id |-> s,
           payload |-> ToVec(ResponseEnvelope(1))] : s \in SessionIds}
    \cup {SessionClosed(s, "server disconnected") : s \in SessionIds}

\* the proxy writes f to the client's socket; it answers one connect_server
\* with at most one `connected`
ProxyFeedsClient ==
    /\ client_task = "run"
    /\ down[conn_of["client"]] = <<>>
    /\ Len(events) < MaxEvents
    /\ \E f \in ProxyToClientFrames :
          /\ f.frame = "text" /\ f.type = "connected" => active_session = NoSession
          /\ down' = [down EXCEPT ![conn_of["client"]] = <<f>>]
    /\ UNCHANGED <<proxy_vars, mutex, conn_of, up, client_vars, server_vars>>

OpenedStatus == EventStatus("P2P channel established")
ClosedStatus == EventStatus("P2P channel closed; using WebSocket relay")
Reported(e) == \E i \in DOMAIN events : events[i] = e

\* dc.on_open: the channel opens once, after the answer has been applied
DataChannelOpen ==
    /\ client_task = "run"
    /\ data_channel
    /\ peer_connection # NoPeerConnection
    /\ peer_connection.state = "open"
    /\ peer_connection.remote_description # "none"
    /\ ~Reported(OpenedStatus) /\ ~Reported(ClosedStatus)
    /\ p2p_ready' = TRUE
    /\ events' = events \o <<EventTransport("P2P data channel"), OpenedStatus>>
    /\ UNCHANGED <<proxy_vars, mutex, net_vars, client_task, prefer_p2p, active_session,
                   peer_connection, data_channel, client_ws_send, command_rx,
                   next_request, app, rpc_sent, dc_c2s, server_vars>>

\* mutant of DataChannelClose: the flag is left as it is
DataChannelCloseKeepsReady ==
    /\ client_task = "run"
    /\ data_channel
    /\ ~Reported(ClosedStatus)
    /\ p2p_ready' = p2p_ready
    /\ events' = events \o <<EventTransport("WebSocket relay"), ClosedStatus>>
    /\ UNCHANGED <<proxy_vars, mutex, net_vars, client_task, prefer_p2p, active_session,
                   peer_connection, data_channel, client_ws_send, command_rx,
                   next_request, app, rpc_sent, dc_c2s, server_vars>>

\* dc.on_close: the channel closes once
DataChannelClose ==
    /\ client_task = "run"
    /\ data_channel
    /\ ~Reported(ClosedStatus)
    /\ p2p_ready' = FALSE
    /\ events' = events \o <<EventTransport("WebSocket relay"), ClosedStatus>>
    /\ UNCHANGED <<proxy_vars, mutex, net_vars, client_task, prefer_p2p, active_session,
                   peer_connection, data_channel, client_ws_send, command_rx,
                   next_request, app, rpc_sent, dc_c2s, server_vars>>

\* connection_task with the host application, the WebRTC callbacks and a
\* proxy that may write any frame
ClientPeerNext ==
    \/ ClientConnect
    \/ ClientWriter
    \/ ProxyFeedsClient
    \/ ClientRecv
    \/ HostSendRpc
    \/ HostDisconnect
    \/ ClientCommandArm
    \/ DataChannelOpen
    \/ DataChannelClose

\* the proxy's own state plays no part here
ClientPeerInit == ProxyInit /\ PeerInit /\ prefer_p2p = TRUE /\ turn_url_given

ClientPeer == ClientPeerInit /\ [][ClientPeerNext]_vars

\* ------------------------------------------- the server peer and its proxy
\* the frames the server peer writes in one run of the specification
\* ServerPeer
MaxWritten == 4

\* what a proxy may write to the server peer's socket
ProxyToServerFrames ==
    {[frame |-> "binary"], AuthOk("server"), Registered("alpha")}
    \cup {ClientConnected(s, 1) : s \in SessionIds}
    \cup {[frame |-> "text", type |-> "client_connected", session_id |-> s,
           client_id |-> 1, via_p2p |-> b, turn |-> TurnCredentials] :
            s \in SessionIds, b \in BOOLEAN}
    \cup {RunCommand(s, "ls") : s \in SessionIds}
    \cup {PeerSignal(s, "client", g) :
            s \in SessionIds, g \in {SdpOffer, SdpAnswer, IceCandidate}}
    \cup {PeerSignal(s, "server", SdpAnswer) : s \in SessionIds}
    \cup {SessionClosed(s, "client disconnected") : s \in SessionIds}

\* the proxy writes f to the server's socket
ProxyFeedsServer ==
    /\ server_task = "run"
    /\ down[conn_of["server"]] = <<>>
    /\ Len(up[conn_of["server"]]) + Len(server_ws_send) < MaxWritten
    /\ \E f \in ProxyToServerFrames :
          down' = [down EXCEPT ![conn_of["server"]] = <<f>>]
    /\ UNCHANGED <<proxy_vars, mutex, conn_of, up, client_vars, server_vars>>

\* the texts one data channel carries in the specification ServerPeer
MaxTexts == 2

\* what the client peer sends on the data channel: its request envelope
ChannelTexts == {ToVec(RequestEnvelope(RpcRequest(1)))}

\* the data channel of session s, open once the offer was answered, has
\* received a text of the client peer
DataChannelDelivers(s) ==
    /\ server_task = "run"
    /\ s \in DOMAIN peer_connections
    /\ peer_connections[s].remote_description # "none"
    /\ Len(peer_connections[s].inbox) + Len(peer_connections[s].sent) < MaxTexts
    /\ \E text \in ChannelTexts :
          peer_connections' = [peer_connections EXCEPT ![s].inbox = Append(@, text)]
    /\ UNCHANGED <<proxy_vars, mutex, net_vars, client_vars, server_task, p2p_meta,
                   server_ws_send>>

\* mutant of on_message: the output goes to the proxy as command_output
on_messageViaProxy(s) ==
    /\ server_task = "run"
    /\ s \in DOMAIN peer_connections
    /\ peer_connections[s].inbox # <<>>
    /\ peer_connections' = [peer_connections EXCEPT ![s].inbox = Tail(@)]
    /\ server_ws_send' =
          Append(server_ws_send,
                 CommandOutputFrame(s, execute_command(Head(peer_connections[s].inbox))))
    /\ UNCHANGED <<proxy_vars, mutex, net_vars, client_vars, server_task, p2p_meta>>

\* dc.on_message of create_peer_connection: the text is run as a command
\* and the output sent on the channel the text came on
on_message(s) ==
    /\ server_task = "run"
    /\ s \in DOMAIN peer_connections
    /\ peer_connections[s].inbox # <<>>
    /\ peer_connections' =
          [peer_connections EXCEPT
             ![s].inbox = Tail(@),
             ![s].sent = Append(@, execute_command(Head(peer_connections[s].inbox)))]
    /\ UNCHANGED <<proxy_vars, mutex, net_vars, client_vars, server_task, p2p_meta,
                   server_ws_send>>

\* main of the server peer with a proxy that may write any frame, and the
\* data channels of its peer connections
ServerPeerNext ==
    \/ ServerConnect
    \/ ServerWriter
    \/ ProxyFeedsServer
    \/ ServerRecv
    \/ \E s \in SessionIds : DataChannelDelivers(s)
    \/ \E s \in SessionIds : on_message(s)

ServerPeer == ClientPeerInit /\ [][ServerPeerNext]_vars

\* one peer, the client or the server, with a proxy that may write any frame
PeerNext ==
    \/ server_task = "start" /\ ClientPeerNext
    \/ client_task = "start" /\ ServerPeerNext

Peer == ClientPeerInit /\ [][PeerNext]_vars

\* ------------------------------------------- the proxy, the mutex explicit
\* the connections of the specification Locks
LockConns == 2

\* what a peer may write in the specification Locks
LockFrames ==
    {AuthProxy("x", "client"), AuthProxy("p", "client"), AuthProxy("p", "server"),
     RegisterServerFrame("alpha", "s1"), ConnectServerFrame("alpha", "s1", FALSE),
     DisconnectSessionFrame(1)}

\* does handle_socket lock the registry for the frame f read from c
LocksFor(c, f) ==
    /\ f.frame = "text"
    /\ CASE role[c] = NoRole ->
              /\ ParsesAs(ClientToProxy, f) /\ f.type = "auth_proxy"
              /\ f.proxy_password = proxy_password
         [] role[c] = "server" /\ server_name[c] = NoName ->
              ParsesAs(ClientToProxy, f) /\ f.type = "register_server"
         [] role[c] = "server" -> ParsesAs(ServerToProxy, f)
         [] OTHER -> ParsesAs(ClientToProxy, f)

\* the handler of c is at a state.lock().await: in send_to_connection, on a
\* frame whose arm locks, in cleanup_connection, or inserting its sender
AtLock(c) ==
    \/ todo[c] # <<>>
    \/ hpc[c] = "read" /\ up[c] # <<>> /\ LocksFor(c, Head(up[c]))
    \/ hpc[c] = "break"
    \/ hpc[c] = "free" /\ c = next_conn /\ next_conn <= LockConns

\* the connect_server frames written and not yet read
PendingConnects ==
    {c \in ConnIds : up[c] # <<>> /\ Head(up[c]).type = "connect_server"}

\* the peer of c writes a frame to its socket; no more connect_server than
\* there are session ids left
PeerWrites(c) ==
    /\ hpc[c] = "read"
    /\ up[c] = <<>>
    /\ WritersIdle
    /\ \E f \in LockFrames :
          /\ f.type = "connect_server" =>
                next_session + Cardinality(PendingConnects) <= MaxSessions
          /\ up' = [up EXCEPT ![c] = <<f>>]
    /\ UNCHANGED <<proxy_vars, mutex, conn_of, down, client_vars, server_vars>>

\* state.lock().await returns: the mutex was free
Acquire(c) ==
    /\ mutex = 0
    /\ AtLock(c)
    /\ mutex' = c
    /\ UNCHANGED <<proxy_vars, peer_vars>>

\* mutant of Section: the guard is still alive when the section ends
SectionKeepsGuard(c) ==
    /\ mutex = c
    /\ mutex' = mutex
    /\ CASE todo[c] # <<>> -> send_to_connection(c) /\ UNCHANGED peer_vars
         [] hpc[c] = "read" ->
              /\ up[c] # <<>>
              /\ handle_socket(c, Head(up[c]))
              /\ up' = [up EXCEPT ![c] = Tail(@)]
              /\ UNCHANGED <<conn_of, down, client_vars, server_vars>>
         [] hpc[c] = "break" -> cleanup_connection(c) /\ UNCHANGED peer_vars
         [] OTHER -> Accept /\ UNCHANGED peer_vars

\* the section the handler of c runs while it holds the mutex, to the drop
\* of the guard
Section(c) ==
    /\ mutex = c
    /\ mutex' = 0
    /\ CASE todo[c] # <<>> -> send_to_connection(c) /\ UNCHANGED peer_vars
         [] hpc[c] = "read" ->
              /\ up[c] # <<>>
              /\ handle_socket(c, Head(up[c]))
              /\ up' = [up EXCEPT ![c] = Tail(@)]
              /\ UNCHANGED <<conn_of, down, client_vars, server_vars>>
         [] hpc[c] = "break" -> cleanup_connection(c) /\ UNCHANGED peer_vars
         [] OTHER -> Accept /\ UNCHANGED peer_vars

\* a turn of the loop on a frame whose arm takes no lock
Unlocked(c) ==
    /\ hpc[c] = "read"
    /\ todo[c] = <<>>
    /\ up[c] # <<>>
    /\ ~LocksFor(c, Head(up[c]))
    /\ handle_socket(c, Head(up[c]))
    /\ up' = [up EXCEPT ![c] = Tail(@)]
    /\ UNCHANGED <<mutex, conn_of, down, client_vars, server_vars>>

\* The proxy with every lock().await a step of its own; as in Spec, a
\* writer runs as soon as it has a frame.
LocksNext ==
    \/ \E c \in ConnIds : Env(WriterSend(c))
    \/ \E c \in ConnIds : PeerWrites(c)
    \/ WritersIdle /\ \E c \in ConnIds : Acquire(c)
    \/ WritersIdle /\ \E c \in ConnIds : Section(c)
    \/ WritersIdle /\ \E c \in ConnIds : Unlocked(c)
    \/ WritersIdle /\ \E c \in ConnIds : up[c] = <<>> /\ Env(SocketClosed(c))
    \/ WritersIdle /\ \E c \in ConnIds : Env(WriterAbort(c))

\* every task runs when it can, and tokio's Mutex serves its waiters in
\* the order they arrived
LocksFairness ==
    \A c \in ConnIds :
        /\ SF_vars(WritersIdle /\ Acquire(c))
        /\ WF_vars(WritersIdle /\ Section(c))
        /\ WF_vars(WritersIdle /\ Unlocked(c))
        /\ WF_vars(Env(WriterSend(c)))
        /\ WF_vars(WritersIdle /\ Env(WriterAbort(c)))

Locks == Init /\ [][LocksNext]_vars /\ LocksFairness

\* ------------------------------------------------------------------ claims
\* the handler of c has left its read loop
Terminal == {"break", "notify", "closed"}

\* the sessions that have c as an endpoint
Touching(m, c) ==
    {s \in DOMAIN m : m[s].server_conn_id = c \/ m[s].client_conn_id = c}

\* the messages a handler still has to send, as a set
Pending(c) == {todo[c][i] : i \in DOMAIN todo[c]}
PendingNext(c) == {todo'[c][i] : i \in DOMAIN todo'[c]}

\* what every handle_socket(c, f) step that is not a stuttering step has in
\* common: the handler of c was reading, no other handler moved, no channel
\* and no socket was touched
ReadStep(c) ==
    /\ hpc[c] = "read"
    /\ todo[c] = <<>>
    /\ vars' # vars
    /\ outbox' = outbox
    /\ next_conn' = next_conn
    /\ \A d \in ConnIds \ {c} : hpc'[d] = hpc[d] /\ todo'[d] = todo[d]

AuthFrames ==
    {f \in PeerFrames : f.frame = "text" /\ f.type = "auth_proxy"}
RegisterFrames ==
    {f \in PeerFrames : f.frame = "text" /\ f.type = "register_server"}
ConnectFrames ==
    {f \in PeerFrames : f.frame = "text" /\ f.type = "connect_server"}
SignalFrames ==
    {f \in PeerFrames : f.frame = "text" /\ f.type \in {"signal", "server_signal"}}

\* C1: in every reachable state of the proxy, both endpoint connection ids
\* of every session in the sessions map are keys of the connections map.
C1_SessionEndpointsConnected ==
    \A s \in DOMAIN sessions :
        /\ sessions[s].server_conn_id \in connections
        /\ sessions[s].client_conn_id \in connections

\* C1 witness: the cleanup of one connection has just removed a session it
\* was an endpoint of, and another session is still in the map.
C1_Witness ==
    /\ sessions # EmptyMap
    /\ \E c \in ConnIds : hpc[c] = "notify" /\ todo[c] # <<>>

\* C2: the step of cleanup_connection under the lock removes every session
\* that has c as its server or client and leaves the other sessions as they
\* were; it produces exactly one session_closed per removed session, for the
\* surviving endpoint, with reason "server disconnected" when c was the
\* server and "client disconnected" when c was the client; from then on no
\* session in the map has c as an endpoint.
C2_DetachStep(c) ==
    LET gone == Touching(sessions, c)
    IN /\ DOMAIN sessions' = DOMAIN sessions \ gone
       /\ \A s \in DOMAIN sessions' : sessions'[s] = sessions[s]
       /\ Len(todo'[c]) = Cardinality(gone)
       /\ \A s \in gone :
            \E i \in DOMAIN todo'[c] :
               /\ todo'[c][i].msg = SessionClosed(s,
                      IF sessions[s].server_conn_id = c
                      THEN "server disconnected" ELSE "client disconnected")
               /\ todo'[c][i].to = IF sessions[s].server_conn_id = c
                                   THEN sessions[s].client_conn_id
                                   ELSE sessions[s].server_conn_id
               /\ todo'[c][i].to # c

C2_DetachAtomic ==
    [][\A c \in ConnIds :
          /\ (hpc[c] = "break" /\ hpc'[c] = "notify") => C2_DetachStep(c)
          /\ hpc'[c] \in {"notify", "closed"} => Touching(sessions', c) = {}]_vars

\* C2 witness: one cleanup removed two sessions at once.
C2_Witness ==
    \E c \in ConnIds : hpc[c] = "notify" /\ Len(todo[c]) = 2

\* the RpcResponse events the host has been sent for request r
Responses(r) ==
    {i \in DOMAIN events : /\ events[i].event = "RpcResponse"
                           /\ events[i].response.request_id = r}

\* C3: in the system of one server peer, one client peer and the proxy,
\* where both peers stay connected, every request the client task sends on
\* its session (by relay or by the data channel) is eventually followed by
\* exactly one RpcResponse event with the same request_id, and it stays so.
C3_RpcRoundTrip ==
    \A r \in 1..MaxRequests :
        [](r \in rpc_sent => <>[](Cardinality(Responses(r)) = 1))

\* C4: of the server connections that send register_server with one name,
\* the one that finds the name free is admitted (it owns the registration
\* and is sent registered), every other is sent connection_error "server
\* name already registered" and leaves the loop with the registration as it
\* was; no two attached connections are ever admitted under one name.
C4_RegisterStep(c, f) ==
    IF f.server_name \in DOMAIN servers
    THEN /\ todo'[c] = <<Notify(c, ConnectionError("server name already registered"))>>
         /\ hpc'[c] = "break"
         /\ server_name'[c] = NoName
         /\ servers' = servers
    ELSE /\ todo'[c] = <<Notify(c, Registered(f.server_name))>>
         /\ hpc'[c] = "read"
         /\ server_name'[c] = f.server_name
         /\ DOMAIN servers' = DOMAIN servers \cup {f.server_name}
         /\ servers'[f.server_name].conn_id = c
         /\ \A n \in DOMAIN servers : servers'[n] = servers[n]

C4_OneOwner ==
    /\ \A c, d \in connections :
          (c # d /\ server_name[c] # NoName) => server_name[c] # server_name[d]
    /\ \A n \in DOMAIN servers :
          /\ servers[n].conn_id \in connections
          /\ server_name[servers[n].conn_id] = n
    /\ \A c \in connections :
          server_name[c] # NoName =>
             /\ server_name[c] \in DOMAIN servers
             /\ servers[server_name[c]].conn_id = c

C4_RegisterAdmitsOne ==
    [][/\ \A c \in ConnIds :
             (ReadStep(c) /\ role[c] = "server" /\ server_name[c] = NoName) =>
                \A f \in RegisterFrames :
                   handle_socket(c, f) => C4_RegisterStep(c, f)
       /\ C4_OneOwner']_vars

\* C4 witness: one connection owns "alpha" while another, which asked for the
\* same name, is about to be sent the duplicate error.
C4_Witness ==
    \E c, d \in ConnIds :
        /\ c # d
        /\ c \in connections
        /\ server_name[c] = "alpha"
        /\ "alpha" \in DOMAIN servers
        /\ servers["alpha"].conn_id = c
        /\ role[d] = "server"
        /\ hpc[d] = "break"
        /\ todo[d] = <<Notify(d, ConnectionError("server name already registered"))>>

\* C5: on an unauthenticated connection, a text frame that is not an
\* auth_proxy with the proxy's password makes the handler send auth_error
\* and leave the loop for good: no role is recorded, the registry is left
\* as it was, and a handler that has left the loop without a role never
\* reads again, owns no registration and no session, and is out of the
\* connections map once its cleanup has run.
C5_BadFirstFrame(f) ==
    /\ f.frame = "text"
    /\ ~(f.type = "auth_proxy" /\ f.proxy_password = proxy_password)

C5_RejectStep(c) ==
    /\ Len(todo'[c]) = 1
    /\ todo'[c][1].to = c
    /\ todo'[c][1].msg.type = "auth_error"
    /\ hpc'[c] = "break"
    /\ role'[c] = NoRole
    /\ UNCHANGED registry
    /\ next_session' = next_session

C5_TerminalUnauth(c) ==
    /\ c \notin DOMAIN conn_roles
    /\ \A n \in DOMAIN servers : servers[n].conn_id # c
    /\ Touching(sessions, c) = {}
    /\ hpc[c] \in {"notify", "closed"} => c \notin connections

C5_AuthErrorTerminal ==
    [][\A c \in ConnIds :
          /\ (ReadStep(c) /\ role[c] = NoRole) =>
                \A f \in PeerFrames :
                   (C5_BadFirstFrame(f) /\ handle_socket(c, f)) => C5_RejectStep(c)
          /\ (hpc[c] \in Terminal /\ role[c] = NoRole) =>
                /\ hpc'[c] \in Terminal
                /\ role'[c] = NoRole
                /\ C5_TerminalUnauth(c)']_vars

\* C5 witness: a connection was refused for a wrong password: the auth_error
\* is in its channel, it has no role, and its handler has left the loop.
C5_Witness ==
    \E c \in ConnIds :
        /\ role[c] = NoRole
        /\ hpc[c] = "break"
        /\ outbox[c] = <<AuthError("invalid proxy password")>>
        /\ c \notin DOMAIN conn_roles
        /\ \E d \in ConnIds : d # c /\ d \in DOMAIN conn_roles

\* C6: an authenticated connection has exactly one role, the one recorded
\* in conn_roles, and it keeps it for as long as the connection lives: no
\* step changes it, and an auth_proxy frame read after authentication
\* leaves conn_roles alone and makes the handler send no auth_ok.
C6_RoleKept(c) ==
    /\ (role[c] # NoRole /\ hpc'[c] # "closed") => role'[c] = role[c]
    /\ (c \in DOMAIN conn_roles /\ c \in DOMAIN conn_roles') =>
          conn_roles'[c] = conn_roles[c]
    /\ (c \in connections' /\ role'[c] # NoRole) =>
          (c \in DOMAIN conn_roles' /\ conn_roles'[c] = role'[c])

C6_RoleImmutable ==
    [][\A c \in ConnIds :
          /\ C6_RoleKept(c)
          /\ (ReadStep(c) /\ role[c] # NoRole) =>
                \A f \in AuthFrames :
                   handle_socket(c, f) =>
                      /\ conn_roles' = conn_roles
                      /\ \A m \in PendingNext(c) : m.msg.type # "auth_ok"]_vars

\* C6 witness: an authenticated client reads an auth_proxy frame that names
\* the other role with the right password, and stays a client.
C6_Witness ==
    \E c \in ConnIds :
        /\ role[c] = "client"
        /\ ENABLED (/\ handle_socket(c, [frame |-> "text", type |-> "auth_proxy",
                                         proxy_password |-> "p", role |-> "server"])
                    /\ role'[c] = "client"
                    /\ todo'[c] = <<>>)

\* C7: for every successful connect_server the handler sends connected to
\* the requesting client and a peer_joined (client_connected in the server
\* peer's schema) to the registered server, and both carry the same session
\* id, the same via_p2p and the same turn.
C7_ConnectSucceeds(c, f) ==
    /\ f.server_name \in DOMAIN servers
    /\ servers[f.server_name].server_password = f.server_password

C7_ToldTheSame(c, f) ==
    \E a, b \in PendingNext(c) :
        /\ a.to = c
        /\ a.msg.type = "connected"
        /\ b.to = servers[f.server_name].conn_id
        /\ b.msg.type \in {"peer_joined", "client_connected"}
        /\ {"session_id", "via_p2p", "turn"} \subseteq DOMAIN b.msg
        /\ b.msg.session_id = a.msg.session_id
        /\ b.msg.via_p2p = a.msg.via_p2p
        /\ b.msg.turn = a.msg.turn

C7_BothToldTheSame ==
    [][\A c \in ConnIds :
          (ReadStep(c) /\ role[c] = "client") =>
             \A f \in ConnectFrames :
                (C7_ConnectSucceeds(c, f) /\ handle_socket(c, f)) =>
                   C7_ToldTheSame(c, f)]_vars

\* the messages the proxy has decided to send or has put on a channel
InFlight ==
    {m.msg : m \in UNION {Pending(c) : c \in ConnIds}}
    \cup UNION {{outbox[c][i] : i \in DOMAIN outbox[c]} : c \in ConnIds}

\* C8: every connected message the proxy sends has turn credentials when
\* via_p2p is true and none when via_p2p is false.
C8_TurnIffViaP2p ==
    \A m \in InFlight :
        m.type = "connected" => (m.via_p2p <=> m.turn # NoTurn)

\* C8 witness: a connected with via_p2p true and one with via_p2p false are
\* on their way to two clients.
C8_Witness ==
    \E c, d \in ConnIds :
        /\ \E m \in Pending(c) : m.msg.type = "connected" /\ m.msg.via_p2p
        /\ outbox[d] # <<>>
        /\ outbox[d][1].type = "connected"
        /\ ~outbox[d][1].via_p2p

\* C9: when the proxy was started with no TURN configured, every connected
\* it sends has via_p2p false and no turn credentials, whatever use_p2p the
\* client asked for.
C9_NoTurnNoP2p ==
    ~turn_url_given =>
        \A m \in InFlight :
            m.type = "connected" => (~m.via_p2p /\ m.turn = NoTurn)

\* C10: a signal that a participant of a live session sends is forwarded to
\* the opposite participant as peer_signal with `from` the sender's role; a
\* signal from a connection that is no participant is not forwarded.
C10_Forwarded(c, f) ==
    LET s == sessions[f.session_id]
        peer == IF s.server_conn_id = c THEN s.client_conn_id ELSE s.server_conn_id
    IN \E m \in PendingNext(c) :
          /\ m.to = peer
          /\ m.msg.type = "peer_signal"
          /\ m.msg.session_id = f.session_id
          /\ m.msg.from = role[c]
          /\ m.msg.signal = f.signal

\* a handler of an authenticated connection (a server: registered) that is
\* about to read a frame
Dispatching(c) ==
    /\ hpc[c] = "read"
    /\ todo[c] = <<>>
    /\ role[c] # NoRole
    /\ (role[c] = "server" => server_name[c] # NoName)

C10_SignalForwarded ==
    \A c \in ConnIds :
        Dispatching(c) =>
           \A f \in SignalFrames :
              IF f.session_id \in Touching(sessions, c)
              THEN ENABLED (handle_socket(c, f) /\ C10_Forwarded(c, f))
              ELSE ~ENABLED (handle_socket(c, f) /\ todo'[c] # <<>>)

\* the session-scoped frames of PeerFrames, by kind
AppDataFrames ==
    {f \in PeerFrames : f.frame = "text" /\ f.type \in {"command_output", "relay_data"}}
ServerDisconnectFrames ==
    {f \in PeerFrames : f.frame = "text" /\ f.type = "server_disconnect_session"}
ClientSessionFrames ==
    {f \in PeerFrames :
        f.frame = "text" /\ f.type \in {"client_command", "relay_data", "disconnect_session"}}

\* C11: application data that a registered server sends for a live session
\* S is forwarded only when the sender is the server endpoint of S: data
\* naming a session of another server makes the handler send nothing, and
\* what the handler does send goes to the client endpoint of S alone, with
\* the payload it was given.
C11_ServerDataOwnerOnly ==
    \A c \in ConnIds :
        (Dispatching(c) /\ role[c] = "server") =>
           \A f \in AppDataFrames :
              f.session_id \in DOMAIN sessions =>
                 IF sessions[f.session_id].server_conn_id # c
                 THEN ~ENABLED (handle_socket(c, f) /\ todo'[c] # <<>>)
                 ELSE ~ENABLED (/\ handle_socket(c, f)
                                /\ \E m \in PendingNext(c) :
                                      \/ m.to # sessions[f.session_id].client_conn_id
                                      \/ m.msg.session_id # f.session_id
                                      \/ m.msg.output # f.output)

\* C12: a disconnect of session S sent by a registered server removes S and
\* notifies the client of S with session_closed "server closed session"
\* when the sender is the server endpoint of S; sent by another registered
\* server it leaves S in the map and makes the handler send nothing.
C12_ServerDisconnectOwnerOnly ==
    \A c \in ConnIds :
        (Dispatching(c) /\ role[c] = "server") =>
           \A f \in ServerDisconnectFrames :
              f.session_id \in DOMAIN sessions =>
                 IF sessions[f.session_id].server_conn_id = c
                 THEN ENABLED (/\ handle_socket(c, f)
                               /\ f.session_id \notin DOMAIN sessions'
                               /\ todo'[c] =
                                     <<Notify(sessions[f.session_id].client_conn_id,
                                              SessionClosed(f.session_id,
                                                            "server closed session"))>>)
                 ELSE ~ENABLED (/\ handle_socket(c, f)
                                /\ (sessions' # sessions \/ todo'[c] # <<>>))

\* C13: a session-scoped frame of a client that names a live session whose
\* client endpoint is another connection changes nothing: the session stays
\* in the map as it was and the handler sends nothing.
C13_ForeignClientIgnored ==
    \A c \in ConnIds :
        (Dispatching(c) /\ role[c] = "client") =>
           \A f \in ClientSessionFrames :
              (/\ f.session_id \in DOMAIN sessions
               /\ sessions[f.session_id].client_conn_id # c) =>
                 ~ENABLED (/\ handle_socket(c, f)
                           /\ (sessions' # sessions \/ todo'[c] # <<>>))


DisconnectFrames ==
    {f \in PeerFrames : f.frame = "text" /\ f.type = "disconnect_session"}

\* C14: the first disconnect_session for S from the client of S removes S
\* and makes the handler send exactly one session_closed, to the server of
\* S; a disconnect_session naming an id that is no longer in the map (ids
\* are fresh, a removed one never comes back) changes nothing in the
\* registry and makes the handler send nothing.
C14_DisconnectIdempotent ==
    /\ \A s \in DOMAIN sessions : s < next_session
    /\ \A c \in ConnIds :
          (Dispatching(c) /\ role[c] = "client") =>
             \A f \in DisconnectFrames :
                IF f.session_id \in DOMAIN sessions
                THEN sessions[f.session_id].client_conn_id = c =>
                        /\ ENABLED handle_socket(c, f)
                        /\ ~ENABLED (/\ handle_socket(c, f)
                                     /\ ~(/\ sessions' = Remove(sessions, f.session_id)
                                          /\ todo'[c] =
                                                <<Notify(sessions[f.session_id].server_conn_id,
                                                         SessionClosed(f.session_id,
                                                                       "client closed session"))>>))
                ELSE ~ENABLED (/\ handle_socket(c, f)
                               /\ (registry' # registry \/ todo'[c] # <<>>))

\* C14 witness: the only client ever accepted has disconnected its session
\* 1 (the server's channel holds the notice) and is about to read again.
C14_Witness ==
    \E c, d \in ConnIds :
        /\ next_conn = 3
        /\ Dispatching(c)
        /\ role[c] = "client"
        /\ role[d] = "server"
        /\ outbox[d] = <<SessionClosed(1, "client closed session")>>
        /\ 1 \notin DOMAIN sessions
        /\ next_session > 1


\* the connection_error a refused connect_server is answered with
C15_Refusal(f) ==
    ConnectionError(IF f.server_name \notin DOMAIN servers
                    THEN "unknown server name" ELSE "invalid server password")

\* C15: a connect_server that names an unregistered server or gives another
\* password than the registered one leaves the registry as it was (no
\* session), makes the handler send one connection_error with the matching
\* reason to the requesting client and nothing to anyone else, and leaves
\* the handler reading with its client role; a reading client can always
\* open a session on a registered server with the right password.
C15_RefusedConnectSurvives ==
    \A c \in ConnIds :
        (Dispatching(c) /\ role[c] = "client") =>
           /\ c \in connections
           /\ c \in DOMAIN conn_roles
           /\ conn_roles[c] = "client"
           /\ \A f \in ConnectFrames :
                 IF ~C7_ConnectSucceeds(c, f)
                 THEN /\ ENABLED handle_socket(c, f)
                      /\ ~ENABLED (/\ handle_socket(c, f)
                                   /\ ~(/\ registry' = registry
                                        /\ next_session' = next_session
                                        /\ todo'[c] = <<Notify(c, C15_Refusal(f))>>
                                        /\ hpc'[c] = "read"
                                        /\ role'[c] = "client"))
                 ELSE next_session <= MaxSessions =>
                         ENABLED (/\ handle_socket(c, f)
                                  /\ next_session \in DOMAIN sessions'
                                  /\ sessions'[next_session].client_conn_id = c)

\* C15 witness: a client that was just refused for a wrong password (the
\* error is in its channel) is reading again, and a connect_server with the
\* right password would now open a session for it.
C15_Witness ==
    \E c \in ConnIds :
        /\ Dispatching(c)
        /\ role[c] = "client"
        /\ outbox[c] = <<ConnectionError("invalid server password")>>
        /\ sessions = EmptyMap
        /\ ENABLED (/\ handle_socket(c, [frame |-> "text", type |-> "connect_server",
                                         server_name |-> "alpha",
                                         server_password |-> "s1", use_p2p |-> FALSE])
                    /\ DOMAIN sessions' = {1}
                    /\ sessions'[1].client_conn_id = c)


\* every frame of PeerFrames that names a session
SessionFrames ==
    {f \in PeerFrames : f.frame = "text" /\ "session_id" \in DOMAIN f}

\* C16: a session-scoped frame (application data, signal, disconnect) read
\* from an authenticated connection and naming an id that is not in the
\* sessions map -- never allocated, or removed by a disconnect or by the
\* cleanup of either endpoint -- is consumed with no effect: the registry
\* is unchanged, the handler sends nothing and goes on reading.
C16_UnknownSessionDropped ==
    \A c \in ConnIds :
        Dispatching(c) =>
           \A f \in SessionFrames :
              f.session_id \notin DOMAIN sessions =>
                 /\ ENABLED handle_socket(c, f)
                 /\ ~ENABLED (/\ handle_socket(c, f)
                              /\ \/ registry' # registry
                                 \/ next_session' # next_session
                                 \/ todo'[c] # <<>>
                                 \/ hpc'[c] # "read")

\* C16 witness: the client of session 1 has gone and its cleanup has removed
\* the session (the notice for the server is still to be sent); the server
\* is reading, and data it now sends for session 1 names no live session.
C16_Witness ==
    \E c, d \in ConnIds :
        /\ Dispatching(c)
        /\ role[c] = "server"
        /\ hpc[d] = "notify"
        /\ todo[d] = <<Notify(c, SessionClosed(1, "client disconnected"))>>
        /\ 1 \notin DOMAIN sessions
        /\ d \notin connections


\* the frames with which the proxy rejects a connection
IsRejection(m) ==
    \/ m.type = "auth_error"
    \/ m.type = "connection_error" /\ m.reason = "server name already registered"

\* C17: under every interleaving of a handler and its writer task, a
\* rejection (auth_error, or connection_error for a duplicate server name)
\* that the handler has queued is written to the socket before the writer
\* is stopped: writer.abort() never finds it still in the channel.
C17_RejectionWrittenBeforeAbort ==
    [][\A c \in ConnIds :
          (writer[c] = "running" /\ writer'[c] = "aborted") =>
             \A i \in DOMAIN outbox[c] : ~IsRejection(outbox[c][i])]_vars


\* C18: a register_server for a name that is taken makes the handler leave
\* its loop with no name of its own and leaves the servers map as it was;
\* the steps that detach a connection that has no name of its own
\* (cleanup_connection, writer.abort) leave the servers map as it was too:
\* the name keeps its owner and its password.
C18_DuplicateLeavesRegistration ==
    \A d \in ConnIds :
        /\ (/\ hpc[d] = "read" /\ todo[d] = <<>>
            /\ role[d] = "server" /\ server_name[d] = NoName) =>
              \A f \in RegisterFrames :
                 f.server_name \in DOMAIN servers =>
                    /\ ENABLED handle_socket(d, f)
                    /\ ~ENABLED (/\ handle_socket(d, f)
                                 /\ ~(/\ servers' = servers
                                      /\ hpc'[d] = "break"
                                      /\ server_name'[d] = NoName))
        /\ (hpc[d] \in Terminal /\ server_name[d] = NoName) =>
              /\ ~ENABLED (cleanup_connection(d) /\ servers' # servers)
              /\ ~ENABLED (WriterAbort(d) /\ servers' # servers)
              /\ ~ENABLED (send_to_connection(d) /\ servers' # servers)

\* C18 witness: d was rejected as a duplicate of "alpha" (the error is in its
\* channel, its handler has left the loop), c still owns the name, and the
\* cleanup of d is about to run and to leave the name with c.
C18_Witness ==
    \E c, d \in ConnIds :
        /\ c # d
        /\ hpc[d] = "break"
        /\ role[d] = "server"
        /\ server_name[d] = NoName
        /\ outbox[d] = <<ConnectionError("server name already registered")>>
        /\ servers = [n \in {"alpha"} |-> [conn_id |-> c, server_password |-> "s1"]]
        /\ ENABLED (/\ cleanup_connection(d)
                    /\ d \notin connections'
                    /\ servers' = servers)


\* C19: every entry of the servers map is owned by a connection that is in
\* the connections map with role server and whose handler has not run its
\* cleanup; the cleanup of the owner removes the name, and while a name is
\* absent a connect_server for it is answered "unknown server name" and a
\* server that has no name yet can register under it.
C19_RegistrationLivesWithOwner ==
    /\ \A n \in DOMAIN servers :
          LET o == servers[n].conn_id
          IN /\ o \in connections
             /\ o \in DOMAIN conn_roles
             /\ conn_roles[o] = "server"
             /\ server_name[o] = n
             /\ hpc[o] \in {"read", "break"}
    /\ \A c \in ConnIds :
          /\ (hpc[c] = "break" /\ todo[c] = <<>> /\ server_name[c] # NoName) =>
                /\ ENABLED cleanup_connection(c)
                /\ ~ENABLED (cleanup_connection(c) /\ server_name[c] \in DOMAIN servers')
          /\ (Dispatching(c) /\ role[c] = "client") =>
                \A f \in ConnectFrames :
                   f.server_name \notin DOMAIN servers =>
                      ~ENABLED (/\ handle_socket(c, f)
                                /\ todo'[c] #
                                      <<Notify(c, ConnectionError("unknown server name"))>>)
          /\ (/\ hpc[c] = "read" /\ todo[c] = <<>>
              /\ role[c] = "server" /\ server_name[c] = NoName) =>
                \A f \in RegisterFrames :
                   f.server_name \notin DOMAIN servers =>
                      ENABLED (/\ handle_socket(c, f)
                               /\ f.server_name \in DOMAIN servers'
                               /\ servers'[f.server_name].conn_id = c)

\* C19 witness: the owner of "alpha" has been detached (its cleanup has run),
\* the name is absent, a client is reading and so is a server with no name.
C19_Witness ==
    \E d, e, c \in ConnIds :
        /\ hpc[d] = "notify"
        /\ server_name[d] = "alpha"
        /\ d \notin connections
        /\ "alpha" \notin DOMAIN servers
        /\ hpc[e] = "read" /\ todo[e] = <<>>
        /\ role[e] = "server" /\ server_name[e] = NoName
        /\ Dispatching(c) /\ role[c] = "client"


\* the endpoints of a session in the map: two different connections, the
\* client with role client, the server with role server and owner of a name
C20_Bound(s) ==
    LET r == sessions[s]
    IN /\ r.session_id = s
       /\ r.server_conn_id # r.client_conn_id
       /\ {r.server_conn_id, r.client_conn_id} \subseteq DOMAIN conn_roles
       /\ conn_roles[r.client_conn_id] = "client"
       /\ conn_roles[r.server_conn_id] = "server"
       /\ server_name[r.server_conn_id] \in DOMAIN servers
       /\ servers[server_name[r.server_conn_id]].conn_id = r.server_conn_id

\* the step that opens session s: a connect_server read from the session's
\* client, naming a registration owned by the session's server
C20_Opened(s) ==
    \E c \in ConnIds : \E f \in ConnectFrames :
        /\ handle_socket(c, f)
        /\ sessions'[s].client_conn_id = c
        /\ f.server_name \in DOMAIN servers
        /\ servers[f.server_name].conn_id = sessions'[s].server_conn_id

\* C20: every session in the map is bound to two different connections, a
\* client-role one and a server-role one; the server endpoint owned the
\* registration named by the connect_server that opened the session, and
\* the two endpoints of a session stay the same for as long as it is in
\* the map.
C20_SessionBinding ==
    /\ [](\A s \in DOMAIN sessions : C20_Bound(s))
    /\ [][/\ \A s \in DOMAIN sessions \cap DOMAIN sessions' : sessions'[s] = sessions[s]
          /\ \A s \in DOMAIN sessions' \ DOMAIN sessions : C20_Opened(s)]_vars

\* C20 witness: two sessions on one server, each with a client of its own.
C20_Witness ==
    /\ DOMAIN sessions = {1, 2}
    /\ sessions[1].server_conn_id = sessions[2].server_conn_id
    /\ sessions[1].client_conn_id # sessions[2].client_conn_id


\* the messages the proxy forwards between the endpoints of a session
Forwarded(m) == m.type \in {"run_command", "output"}
AppData(m) == IF m.type = "run_command" THEN m.command ELSE m.output

\* everything handed to the channel of connection r, oldest first: what the
\* writer has put on the socket, then what the channel still holds
Wire(r) == down[r] \o outbox[r]

\* C21: for every recipient connection, the messages one peer sent for one
\* session stand on the recipient's socket and channel in the order the
\* proxy read them, and a message the sender's handler has still to enqueue
\* was read after every one of them.
C21_NoReorder ==
    \A r \in ConnIds :
        /\ \A i, j \in DOMAIN Wire(r) :
              (/\ i < j
               /\ Forwarded(Wire(r)[i]) /\ Forwarded(Wire(r)[j])
               /\ Wire(r)[i].session_id = Wire(r)[j].session_id
               /\ AppData(Wire(r)[i]).from = AppData(Wire(r)[j]).from)
              => AppData(Wire(r)[i]).n < AppData(Wire(r)[j]).n
        /\ \A c \in ConnIds : \A k \in DOMAIN todo[c] : \A i \in DOMAIN Wire(r) :
              (/\ todo[c][k].to = r
               /\ Forwarded(todo[c][k].msg) /\ Forwarded(Wire(r)[i])
               /\ AppData(todo[c][k].msg).from = AppData(Wire(r)[i]).from)
              => AppData(Wire(r)[i]).n < AppData(todo[c][k].msg).n

\* C21 witness: two messages of one sender for one session, the first on the
\* recipient's socket and the second still in its channel.
C21_Witness ==
    \E r \in ConnIds :
        /\ down[r] # <<>> /\ outbox[r] # <<>>
        /\ Forwarded(down[r][Len(down[r])]) /\ Forwarded(outbox[r][1])
        /\ down[r][Len(down[r])].session_id = outbox[r][1].session_id
        /\ AppData(down[r][Len(down[r])]).from = AppData(outbox[r][1]).from


\* connection_task takes a SendRpc command while a session is active
SendRpcStep ==
    /\ client_task = "run"
    /\ command_rx # <<>>
    /\ Head(command_rx).command = "SendRpc"
    /\ command_rx' = Tail(command_rx)
    /\ active_session # NoSession

\* the envelope of the command at the head of command_rx, serialized
HeadPayload == ToVec(RequestEnvelope(Head(command_rx).request))

\* C22: an envelope the client sends while a session is active goes on the
\* data channel and not to the WebSocket writer when p2p_ready is set and a
\* channel is stored, and otherwise to the WebSocket writer as relay_data
\* for the active session and not on the data channel.
C22_OneTransport ==
    [][SendRpcStep =>
          IF p2p_ready /\ data_channel
          THEN /\ dc_c2s' = Append(dc_c2s, HeadPayload)
               /\ client_ws_send' = client_ws_send
          ELSE /\ client_ws_send' =
                     Append(client_ws_send, RelayData(active_session, HeadPayload))
               /\ dc_c2s' = dc_c2s]_vars

\* C22 witness: one envelope went out on the data channel and, the channel
\* closed since, another as relay_data.
C22_Witness ==
    /\ dc_c2s # <<>>
    /\ ~p2p_ready
    /\ \E i \in DOMAIN client_ws_send : client_ws_send[i].type = "relay_data"


\* C23: once the data channel's close callback has run, p2p_ready is false
\* and every envelope sent from then on goes to the WebSocket writer as
\* relay_data; the step of the callback leaves the active session, the task,
\* the peer connection, the frames written to the proxy and the proxy's
\* sessions as they were.
C23_CloseFallsBack ==
    /\ [](Reported(ClosedStatus) => ~p2p_ready)
    /\ [][/\ (Reported(ClosedStatus) /\ SendRpcStep) =>
                /\ client_ws_send' =
                      Append(client_ws_send, RelayData(active_session, HeadPayload))
                /\ dc_c2s' = dc_c2s
          /\ (~Reported(ClosedStatus) /\ Reported(ClosedStatus)') =>
                /\ active_session' = active_session
                /\ client_task' = client_task
                /\ peer_connection' = peer_connection
                /\ client_ws_send' = client_ws_send
                /\ up' = up
                /\ sessions' = sessions]_vars

\* C23 witness: the channel was open and has closed, the session is still
\* active and an envelope has since been written to the socket as relay_data.
C23_Witness ==
    /\ Reported(OpenedStatus) /\ Reported(ClosedStatus)
    /\ client_task = "run" /\ active_session # NoSession
    /\ dc_c2s = <<>>
    /\ \E i \in DOMAIN up[conn_of["client"]] :
          up[conn_of["client"]][i].type = "relay_data"


\* connection_task takes a Disconnect command
DisconnectStep ==
    /\ client_task = "run"
    /\ command_rx # <<>>
    /\ Head(command_rx).command = "Disconnect"
    /\ command_rx' = Tail(command_rx)

\* connection_task reads session_closed for its active session
ClientClosedStep ==
    /\ client_task = "run"
    /\ down[conn_of["client"]] # <<>>
    /\ down'[conn_of["client"]] = Tail(down[conn_of["client"]])
    /\ ParsesAs(ProxyToPeer, Head(down[conn_of["client"]]))
    /\ Head(down[conn_of["client"]]).type = "session_closed"
    /\ Head(down[conn_of["client"]]).session_id = active_session

\* main of the server peer reads a session_closed
ServerClosedStep ==
    /\ server_task = "run"
    /\ down[conn_of["server"]] # <<>>
    /\ down'[conn_of["server"]] = Tail(down[conn_of["server"]])
    /\ ParsesAs(ServerProxyToPeer, Head(down[conn_of["server"]]))
    /\ Head(down[conn_of["server"]]).type = "session_closed"

UnparsedFrames ==
    {f \in PeerFrames : /\ f.frame = "text"
                        /\ ~ParsesAs(ClientToProxy, f)
                        /\ ~ParsesAs(ServerToProxy, f)}

\* C25: on an authenticated connection, of either role and whether or not
\* a server has registered, a text frame that does not parse gets no reply,
\* changes no map and leaves the handler reading in the same state.
C25_UnparsedDropped ==
    \A c \in ConnIds :
        (hpc[c] = "read" /\ todo[c] = <<>> /\ role[c] # NoRole) =>
            \A f \in UnparsedFrames :
                ~ENABLED (/\ handle_socket(c, f)
                          /\ \/ todo'[c] # <<>>
                             \/ hpc'[c] # "read"
                             \/ registry' # registry
                             \/ role' # role
                             \/ server_name' # server_name)


\* C26: a binary frame read in any state of a connection, before the
\* handshake included, changes nothing: no message is queued, the handler
\* keeps reading with the same role and name, the maps stay as they are,
\* and an unauthenticated connection can still authenticate with its next
\* frame.
C26_BinaryIgnored ==
    \A c \in ConnIds :
        (hpc[c] = "read" /\ todo[c] = <<>>) =>
            /\ ENABLED handle_socket(c, BinaryFrame)
            /\ ~ENABLED (handle_socket(c, BinaryFrame) /\ proxy_vars' # proxy_vars)
            /\ role[c] = NoRole =>
                  ENABLED (/\ handle_socket(c, AuthProxy(proxy_password, "client"))
                           /\ role'[c] = "client"
                           /\ todo'[c] = <<Notify(c, AuthOk("client"))>>)

\* C26 witness: an unauthenticated connection, a registered server and a
\* client with a session are all reading.
C26_Witness ==
    \E c, d, e \in ConnIds :
        /\ hpc[c] = "read" /\ todo[c] = <<>> /\ role[c] = NoRole
        /\ hpc[d] = "read" /\ todo[d] = <<>> /\ server_name[d] # NoName
        /\ hpc[e] = "read" /\ todo[e] = <<>> /\ role[e] = "client"
        /\ \E s \in DOMAIN sessions : sessions[s].client_conn_id = e


\* C27: the handler that holds the registry mutex can always run its
\* section to the end, and the mutex is free again when the section ends,
\* before the handler's next send or read; so a handler at a lock().await
\* always finds the mutex free or its holder able to release it, and it
\* eventually holds the mutex itself.
C27_MutexShortSections ==
    /\ [](/\ mutex # 0 => ENABLED Section(mutex)
          /\ \A c \in ConnIds :
                AtLock(c) => \/ mutex = 0 /\ ENABLED Acquire(c)
                             \/ mutex # 0 /\ ENABLED Section(mutex))
    /\ [][mutex # 0 =>
             \/ mutex' = 0
             \/ /\ mutex' = mutex
                /\ hpc'[mutex] = hpc[mutex]
                /\ todo'[mutex] = todo[mutex]
                /\ registry' = registry]_vars
    /\ \A c \in ConnIds : AtLock(c) ~> mutex = c

\* C27 witness: one handler holds the mutex while another is at its
\* lock().await with a message to send.
C27_Witness ==
    \E c, d \in ConnIds :
        /\ c # d
        /\ mutex = c /\ hpc[c] = "break"
        /\ todo[d] # <<>>

\* the client's task has ended: it processed Disconnect or was refused, and
\* its socket goes with its runtime
ClientGone == client_task = "done" /\ conn_of["client"] # 0

\* the proxy has written session_closed{s} to the server peer's socket
ServerNotified(s) ==
    /\ conn_of["server"] # 0
    /\ \E i \in DOMAIN down[conn_of["server"]] :
          /\ down[conn_of["server"]][i].type = "session_closed"
          /\ down[conn_of["server"]][i].session_id = s

\* C28: once the client peer's task has ended, the proxy eventually has
\* its connection neither in the connection table nor as an endpoint of a
\* session; the server peer of every session the client was in eventually
\* finds session_closed for it on its socket, reads it, and has no peer
\* connection for the session afterwards.
C28_CancellationBySocket ==
    /\ \A c \in ConnIds :
          (ClientGone /\ conn_of["client"] = c)
             ~> (c \notin connections /\ Touching(sessions, c) = {})
    /\ \A s \in SessionIds :
          /\ (ClientGone /\ s \in DOMAIN sessions
                 /\ sessions[s].client_conn_id = conn_of["client"])
                ~> ServerNotified(s)
          /\ ServerNotified(s)
                ~> (~ServerNotified(s) /\ s \notin DOMAIN peer_connections
                      /\ s \notin DOMAIN p2p_meta)

\* the client left by Disconnect while in a session, the proxy saw the
\* socket close, dropped the connection and told the server peer
C28_Witness ==
    /\ ClientGone
    /\ conn_of["client"] \notin connections
    /\ Touching(sessions, conn_of["client"]) = {}
    /\ \E s \in SessionIds :
          /\ ServerNotified(s)
          /\ SessionClosed(s, "client disconnected")
                \in {down[conn_of["server"]][i] : i \in DOMAIN down[conn_of["server"]]}
    /\ \E i \in DOMAIN events : events[i] = EventConnected

\* the handler of connection h hands session_closed{s} to the channel of c
EnqueuesClosed(h, c, s) ==
    /\ todo[h] # <<>>
    /\ Head(todo[h]).to = c
    /\ Head(todo[h]).msg.type = "session_closed"
    /\ Head(todo[h]).msg.session_id = s
    /\ todo'[h] = Tail(todo[h])
    /\ outbox'[c] = Append(outbox[c], Head(todo[h]).msg)

\* some handler has opened session s and not yet sent c its announcement
AnnouncementPending(c, s) ==
    \E g \in ConnIds : \E m \in Pending(g) :
        /\ m.to = c
        /\ m.msg.type \in {"connected", "client_connected"}
        /\ m.msg.session_id = s

\* C29: whenever session_closed{S} is put on a connection's outbound
\* channel, no announcement of S to that connection (connected for the
\* client, client_connected for the server) is still waiting to be sent:
\* the announcement of a session is enqueued before its closing.
C29_ConnectedBeforeClosed ==
    [][\A h, c \in ConnIds : \A s \in SessionIds :
          EnqueuesClosed(h, c, s) => ~AnnouncementPending(c, s)]_vars

\* this step is main's loop on the server peer taking the frame at the head
\* of its socket
ServerTakes ==
    /\ server_task = "run"
    /\ down[conn_of["server"]] # <<>>
    /\ down' = [down EXCEPT ![conn_of["server"]] = Tail(@)]

\* ... and the frame is a signal of the client for s that main hands to
\* handle_client_signal
SignalStep(s) ==
    /\ ServerTakes
    /\ LET f == Head(down[conn_of["server"]])
       IN /\ ParsesAs(ServerProxyToPeer, f)
          /\ f.type = "peer_signal"
          /\ f.session_id = s
          /\ f.from = "client"
          /\ s \in DOMAIN p2p_meta
          /\ p2p_meta[s].use_p2p

\* ... and the frame is session_closed for s
ClosedStep(s) ==
    /\ ServerTakes
    /\ LET f == Head(down[conn_of["server"]])
       IN /\ ParsesAs(ServerProxyToPeer, f)
          /\ f.type = "session_closed"
          /\ f.session_id = s

\* C30: the server peer's map holds one peer connection per session id.
\* An entry for s appears only in a step that handles a signal for s, and
\* every such step leaves s with an entry; when s had one already the step
\* goes on with it: the candidates it had are kept, and its remote
\* description is kept unless the signal is an offer.  The entry goes in
\* the step that handles session_closed for s and in no other, and no
\* other step changes its description or its candidates.
C30_OnePeerConnectionPerSession ==
    [][\A s \in SessionIds :
          LET had == s \in DOMAIN peer_connections
              has == s \in DOMAIN peer_connections'
              signal == Head(down[conn_of["server"]]).signal
          IN /\ (~had /\ has) => SignalStep(s)
             /\ SignalStep(s) => has
             /\ (SignalStep(s) /\ had) =>
                   /\ peer_connections[s].candidates
                         \subseteq peer_connections'[s].candidates
                   /\ signal.kind # "sdp_offer" =>
                         peer_connections'[s].remote_description
                            = peer_connections[s].remote_description
             /\ ClosedStep(s) => ~has
             /\ (had /\ ~has) => ClosedStep(s)
             /\ (had /\ ~SignalStep(s) /\ ~ClosedStep(s)) =>
                   /\ has
                   /\ peer_connections'[s].remote_description
                         = peer_connections[s].remote_description
                   /\ peer_connections'[s].candidates
                         = peer_connections[s].candidates]_vars

\* a session's connection took the offer and then a candidate
C30_Witness ==
    \E s \in SessionIds :
        /\ s \in DOMAIN peer_connections
        /\ peer_connections[s].remote_description # "none"
        /\ peer_connections[s].candidates # {}

\* this step is connection_task taking the frame at the head of its socket
ClientTakes ==
    /\ client_task = "run"
    /\ down[conn_of["client"]] # <<>>
    /\ down' = [down EXCEPT ![conn_of["client"]] = Tail(@)]

\* ... and the frame is a signal of the server for the active session,
\* which has a peer connection
ClientSignalStep ==
    /\ ClientTakes
    /\ LET f == Head(down[conn_of["client"]])
       IN /\ ParsesAs(ProxyToPeer, f)
          /\ f.type = "peer_signal"
          /\ f.session_id = active_session
          /\ f.from = "server"
          /\ peer_connection # NoPeerConnection

C31_ServerAnswered ==
    \E s \in SessionIds :
        /\ s \in DOMAIN peer_connections
        /\ peer_connections[s].remote_description = SdpOffer.sdp
        /\ \/ \E i \in DOMAIN server_ws_send :
                 server_ws_send[i] = ServerSignal(s, SdpAnswer)
           \/ \E i \in DOMAIN up[conn_of["server"]] :
                 up[conn_of["server"]][i] = ServerSignal(s, SdpAnswer)

\* the client has applied the server's answer and a candidate
C31_ClientApplied ==
    /\ peer_connection # NoPeerConnection
    /\ peer_connection.remote_description = SdpAnswer.sdp
    /\ peer_connection.candidates # {}

ServerHead == Head(down[conn_of["server"]])
ServerParses == ParsesAs(ServerProxyToPeer, ServerHead)

\* C32: the server peer's metadata for a session is written only when it
\* takes client_connected for that session, with use_p2p as the frame's
\* via_p2p, and is gone once it has taken session_closed for it; a
\* peer_signal whose sender is not the client, or whose session has no
\* metadata or metadata without use_p2p, changes no peer connection, queues
\* no frame and leaves the metadata and the task as they are.
C32_SignalNeedsP2pSession ==
    [][/\ \A s \in SessionIds :
             /\ (/\ s \in DOMAIN p2p_meta'
                 /\ (s \notin DOMAIN p2p_meta \/ p2p_meta'[s] # p2p_meta[s])) =>
                   /\ ServerTakes /\ ServerParses
                   /\ ServerHead.type = "client_connected"
                   /\ ServerHead.session_id = s
                   /\ p2p_meta'[s].use_p2p = ServerHead.via_p2p
             /\ ClosedStep(s) => s \notin DOMAIN p2p_meta'
             /\ (s \in DOMAIN p2p_meta /\ s \notin DOMAIN p2p_meta') => ClosedStep(s)
       /\ (/\ ServerTakes /\ ServerParses
           /\ ServerHead.type = "peer_signal"
           /\ ~(/\ ServerHead.from = "client"
                /\ ServerHead.session_id \in DOMAIN p2p_meta
                /\ p2p_meta[ServerHead.session_id].use_p2p)) =>
             UNCHANGED <<peer_connections, server_ws_send, p2p_meta, server_task>>]_vars

\* the server peer is about to take a client's offer for a session it has
\* no P2P metadata for, while another session has its connection
C32_Witness ==
    /\ server_task = "run"
    /\ down[conn_of["server"]] # <<>>
    /\ \E s, t \in SessionIds :
          /\ ServerHead = PeerSignal(s, "client", SdpOffer)
          /\ s \in DOMAIN p2p_meta /\ ~p2p_meta[s].use_p2p
          /\ t \in DOMAIN peer_connections
          /\ t \in DOMAIN p2p_meta /\ p2p_meta[t].use_p2p

\* this step is on_message taking a text from the data channel of session s
ChannelStep(s) ==
    /\ s \in DOMAIN peer_connections
    /\ s \in DOMAIN peer_connections'
    /\ peer_connections[s].inbox # <<>>
    /\ peer_connections'[s].inbox = Tail(peer_connections[s].inbox)

\* this step is main's loop taking run_command for session s
RunCommandStep(s) ==
    /\ ServerTakes /\ ServerParses
    /\ ServerHead.type = "run_command"
    /\ ServerHead.session_id = s

\* the command_output frames for session s among the frames q
OutputsFor(q, s) ==
    Cardinality({i \in DOMAIN q : q[i].type = "command_output" /\ q[i].session_id = s})

\* C33: a text the server peer takes from the data channel of a session
\* makes it send one text, the output of executing it, on that same channel
\* and nothing to the proxy; a run_command it takes from the proxy makes it
\* queue one command_output for the proxy, with the same session id and the
\* output of the command, and nothing on any data channel.  Nothing else is
\* ever sent on a data channel and no other command_output is ever queued.
C33_AnsweredWhereAsked ==
    [][\A s \in SessionIds :
          /\ ChannelStep(s) =>
                /\ peer_connections'[s].sent
                      = Append(peer_connections[s].sent,
                               execute_command(Head(peer_connections[s].inbox)))
                /\ server_ws_send' = server_ws_send
                /\ \A t \in DOMAIN peer_connections \ {s} :
                      t \in DOMAIN peer_connections'
                        /\ peer_connections'[t] = peer_connections[t]
          /\ RunCommandStep(s) =>
                /\ server_ws_send'
                      = Append(server_ws_send,
                               CommandOutputFrame(s, execute_command(ServerHead.command)))
                /\ peer_connections' = peer_connections
          /\ (/\ s \in DOMAIN peer_connections /\ s \in DOMAIN peer_connections'
              /\ peer_connections'[s].sent # peer_connections[s].sent) => ChannelStep(s)
          /\ (s \in DOMAIN peer_connections' /\ s \notin DOMAIN peer_connections) =>
                peer_connections'[s].sent = <<>>
          /\ OutputsFor(server_ws_send', s) > OutputsFor(server_ws_send, s)
                => RunCommandStep(s)]_vars

\* the server peer has answered a text on the data channel of one session
\* and has a command_output for the proxy queued or written
C33_Witness ==
    /\ \E s \in DOMAIN peer_connections :
          /\ peer_connections[s].sent # <<>>
          /\ peer_connections[s].inbox = <<>>
    /\ \E s \in SessionIds :
          OutputsFor(server_ws_send, s) + OutputsFor(up[conn_of["server"]], s) > 0

\* the frame connection_task is about to take, when it parses
ClientHead == Head(down[conn_of["client"]])
ClientParses == ParsesAs(ProxyToPeer, ClientHead)

\* a frame for a session that is not the active one, or a signal that does
\* not come from the server
Foreign(f) ==
    \/ /\ f.type \in {"peer_signal", "relay_data", "session_closed"}
       /\ f.session_id # active_session
    \/ /\ f.type = "peer_signal"
       /\ f.from # "server"

\* C34: when the client peer takes a peer_signal, relay_data or
\* session_closed that names another session than its active one (or any
\* session while it has none), or a peer_signal whose sender is not the
\* server, its active session, peer connection, data channel slot and
\* p2p_ready flag stay as they are, it sends no event and queues no frame,
\* and the task goes on.
C34_ForeignIgnored ==
    [][(ClientTakes /\ ClientParses /\ Foreign(ClientHead)) =>
          /\ UNCHANGED <<active_session, peer_connection, data_channel, p2p_ready,
                         events, client_ws_send>>
          /\ client_task' = "run"]_vars

\* a client in a P2P session is about to take session_closed for
\* another session
C34_Witness ==
    /\ client_task = "run"
    /\ active_session # NoSession
    /\ peer_connection # NoPeerConnection
    /\ down[conn_of["client"]] # <<>>
    /\ ClientParses /\ Foreign(ClientHead)
    /\ ClientHead.type = "session_closed"
    /\ Reported(EventConnected)

\* connection_task takes a SendRpc command while no session is active
UnboundSendRpcStep ==
    /\ client_task = "run"
    /\ command_rx # <<>>
    /\ Head(command_rx).command = "SendRpc"
    /\ command_rx' = Tail(command_rx)
    /\ active_session = NoSession

\* the host has issued request r and the task has taken it from command_rx
Taken(r) ==
    /\ r < next_request
    /\ \A i \in DOMAIN command_rx :
          command_rx[i].command = "SendRpc" => command_rx[i].request.request_id # r

\* the envelope of request r is queued for the writer, written to the
\* socket, or sent on the data channel
OnWire(r) ==
    LET payload == ToVec(RequestEnvelope(RpcRequest(r)))
        carries(q) == \E i \in DOMAIN q :
                         q[i].type = "relay_data" /\ q[i].payload = payload
    IN \/ carries(client_ws_send)
       \/ conn_of["client"] # 0 /\ carries(up[conn_of["client"]])
       \/ \E i \in DOMAIN dc_c2s : dc_c2s[i] = payload

\* C35: taking a SendRpc command while no session is active queues no
\* frame, sends nothing on the data channel and keeps nothing of the
\* request; a request taken that way is never on the writer's queue, on
\* the socket or on the data channel afterwards, whatever session becomes
\* active later.
C35_UnboundRequestDropped ==
    /\ [][UnboundSendRpcStep =>
             UNCHANGED <<client_ws_send, dc_c2s, rpc_sent, up, active_session,
                         peer_connection, data_channel, p2p_ready, events,
                         client_task>>]_vars
    /\ [](\A r \in 1..MaxRequests :
             (Taken(r) /\ r \notin rpc_sent) => ~OnWire(r))

\* a request was dropped before the session, and a later one went out
C35_Witness ==
    /\ active_session # NoSession
    /\ \E r, q \in 1..MaxRequests :
          /\ Taken(r) /\ r \notin rpc_sent
          /\ q \in rpc_sent /\ OnWire(q)

\* ------------------------------------------- the server's rpc module
\* Result<T, E>
Ok(value) == [ok |-> TRUE, value |-> value]
Err(err) == [ok |-> FALSE, err |-> err]

\* the host the handler runs on: one file, one directory, and a command
\* with an interior NUL byte, which no process can be started with
RemoteFile == "/srv/notes.txt"
RemoteDir == "/srv"
RpcPaths == {RemoteFile, RemoteDir, "/gone/notes.txt"}
NulCommand == "ls NUL"
RpcCommands == {"ls", NulCommand}

\* RpcAction
RpcActions ==
    {[action |-> "run_command", command |-> c] : c \in RpcCommands}
    \cup {[action |-> "list_roots"]}
    \cup {[action |-> "list_directory", path |-> p] : p \in RpcPaths}
    \cup {[action |-> "read_file", path |-> p] : p \in RpcPaths}
    \cup {[action |-> "write_file", path |-> p, content |-> "text"] : p \in RpcPaths}

\* RpcResult::Error
RpcError(err) == [result |-> "error", message |-> err]

\* list_roots: on this platform the one root
list_roots == Ok(<<"/">>)

\* list_directory: read_dir fails on what is not a directory
list_directory(path) ==
    IF path = RemoteDir THEN Ok(<<[name |-> "notes.txt", path |-> RemoteFile,
                                   is_dir |-> FALSE]>>)
    ELSE Err("not a directory")

\* fs::read_to_string
read_to_string(path) ==
    IF path = RemoteFile THEN Ok("text") ELSE Err("cannot read")

\* create_dir_all(parent) followed by fs::write
write_file(path, content) ==
    IF path = RemoteDir THEN Err("is a directory") ELSE Ok("unit")

\* execute_command of rpc.rs: the combined output, or the failure as text
rpc_execute_command(command) ==
    LET output_result == IF command = NulCommand THEN Err("nul byte")
                         ELSE Ok([output_of |-> command])
    IN IF output_result.ok THEN output_result.value
       ELSE [failed |-> output_result.err]

\* mutant of handle_rpc: a failed action is answered under a fresh id
handle_rpcFreshId(request) ==
    LET a == request.action
        result ==
            CASE a.action = "run_command" ->
                   [result |-> "command_output",
                    output |-> rpc_execute_command(a.command)]
              [] a.action = "list_roots" ->
                   IF list_roots.ok
                   THEN [result |-> "roots", roots |-> list_roots.value]
                   ELSE RpcError(list_roots.err)
              [] a.action = "list_directory" ->
                   IF list_directory(a.path).ok
                   THEN [result |-> "directory_entries", path |-> a.path,
                         entries |-> list_directory(a.path).value]
                   ELSE RpcError(list_directory(a.path).err)
              [] a.action = "read_file" ->
                   IF read_to_string(a.path).ok
                   THEN [result |-> "file_content", path |-> a.path,
                         content |-> read_to_string(a.path).value]
                   ELSE RpcError(read_to_string(a.path).err)
              [] a.action = "write_file" ->
                   IF write_file(a.path, a.content).ok
                   THEN [result |-> "write_complete", path |-> a.path]
                   ELSE RpcError(write_file(a.path, a.content).err)
    IN [request_id |-> IF result.result = "error" THEN 0 ELSE request.request_id,
        result |-> result]

\* handle_rpc: the action's result, or its error, under the request's id
handle_rpc(request) ==
    LET a == request.action
        result ==
            CASE a.action = "run_command" ->
                   [result |-> "command_output",
                    output |-> rpc_execute_command(a.command)]
              [] a.action = "list_roots" ->
                   IF list_roots.ok
                   THEN [result |-> "roots", roots |-> list_roots.value]
                   ELSE RpcError(list_roots.err)
              [] a.action = "list_directory" ->
                   IF list_directory(a.path).ok
                   THEN [result |-> "directory_entries", path |-> a.path,
                         entries |-> list_directory(a.path).value]
                   ELSE RpcError(list_directory(a.path).err)
              [] a.action = "read_file" ->
                   IF read_to_string(a.path).ok
                   THEN [result |-> "file_content", path |-> a.path,
                         content |-> read_to_string(a.path).value]
                   ELSE RpcError(read_to_string(a.path).err)
              [] a.action = "write_file" ->
                   IF write_file(a.path, a.content).ok
                   THEN [result |-> "write_complete", path |-> a.path]
                   ELSE RpcError(write_file(a.path, a.content).err)
    IN [request_id |-> request.request_id, result |-> result]

\* AppEnvelope { payload: AppPayload::RpcResponse(response) }
RpcResponseEnvelope(response) ==
    [message_id |-> "fresh",
     payload |-> [kind |-> "rpc_response", request_id |-> response.request_id,
                  result |-> response.result]]

\* what a data channel may carry to the rpc module: request envelopes, a
\* response envelope and a text that is no envelope
RpcTexts ==
    {ToVec(RequestEnvelope([request_id |-> r, action |-> a])) :
        r \in 1..MaxRequests, a \in RpcActions}
    \cup {ToVec(ResponseEnvelope(1)), [json |-> [kind |-> "rpc_request"]]}

\* dc.on_message of transport/webrtc.rs: a request envelope is handed to
\* handle_rpc and the response sent on the channel the request came on
webrtc_on_message(s) ==
    /\ s \in DOMAIN peer_connections
    /\ peer_connections[s].inbox # <<>>
    /\ LET text == Head(peer_connections[s].inbox)
       IN IF IsEnvelope(text) /\ text.json.payload.kind = "rpc_request"
          THEN LET request == [request_id |-> text.json.payload.request_id,
                               action |-> text.json.payload.action]
               IN peer_connections' =
                     [peer_connections EXCEPT
                        ![s].inbox = Tail(@),
                        ![s].sent = Append(@, ToVec(RpcResponseEnvelope(
                                                        handle_rpc(request))))]
          ELSE peer_connections' = [peer_connections EXCEPT ![s].inbox = Tail(@)]
    /\ UNCHANGED <<proxy_vars, mutex, net_vars, client_vars, server_task, p2p_meta,
                   server_ws_send>>

\* the rpc module behind one open data channel that holds the texts the
\* remote peer has sent
RpcInit ==
    /\ ProxyInit /\ PeersIdle /\ prefer_p2p = TRUE /\ turn_url_given
    /\ \E n \in 1..MaxTexts :
          \E inbox \in [1..n -> RpcTexts] :
             peer_connections =
                Insert(EmptyMap, 1,
                       [FreshConnection EXCEPT !.remote_description = SdpOffer.sdp,
                                               !.inbox = inbox])

RpcNext == \E s \in SessionIds : webrtc_on_message(s)

Rpc == RpcInit /\ [][RpcNext]_vars

\* the text the rpc module's channel of session s hands on next
RpcHead(s) == Head(peer_connections[s].inbox)

\* dc.on_message takes a request envelope from the channel of session s
RpcStep(s) ==
    /\ s \in DOMAIN peer_connections
    /\ peer_connections[s].inbox # <<>>
    /\ peer_connections'[s].inbox = Tail(peer_connections[s].inbox)
    /\ IsEnvelope(RpcHead(s))
    /\ RpcHead(s).json.payload.kind = "rpc_request"

\* the operating system refuses what the action asks for
ActionFails(a) ==
    CASE a.action = "run_command" -> a.command = NulCommand
      [] a.action = "list_roots" -> ~list_roots.ok
      [] a.action = "list_directory" -> ~list_directory(a.path).ok
      [] a.action = "read_file" -> ~read_to_string(a.path).ok
      [] a.action = "write_file" -> ~write_file(a.path, a.content).ok

\* the step sends exactly one text on the channel of session s, the
\* response envelope with the id of the request it took
AnswersOnce(s) ==
    LET before == peer_connections[s].sent
        after == peer_connections'[s].sent
    IN /\ Len(after) = Len(before) + 1
       /\ SubSeq(after, 1, Len(before)) = before
       /\ IsEnvelope(after[Len(after)])
       /\ after[Len(after)].json.payload.kind = "rpc_response"
       /\ after[Len(after)].json.payload.request_id =
             RpcHead(s).json.payload.request_id

\* the result the step has sent
SentResult(s) ==
    peer_connections'[s].sent[Len(peer_connections'[s].sent)].json.payload.result

\* C36 as stated: every request is answered once under its own id, and
\* with an Error result whenever its action fails, run command included.
C36_ErrorOnEveryFailure ==
    [][\A s \in SessionIds :
          RpcStep(s) =>
             /\ AnswersOnce(s)
             /\ ActionFails(RpcHead(s).json.payload.action) =>
                   SentResult(s).result = "error"]_vars

\* C36: every request the rpc module takes is answered exactly once, under
\* the request's id, for each of the five actions; a failed list roots, list
\* directory, read file or write file is answered with an Error result, a
\* run command always with a CommandOutput, which carries the failure as
\* text when the process cannot be started; a text that is no request is
\* answered with nothing.
C36_OneResponsePerRequest ==
    [][\A s \in SessionIds :
          /\ RpcStep(s) =>
                LET a == RpcHead(s).json.payload.action
                IN /\ AnswersOnce(s)
                   /\ a.action = "run_command" =>
                         /\ SentResult(s).result = "command_output"
                         /\ ActionFails(a) <=> "failed" \in DOMAIN SentResult(s).output
                   /\ a.action # "run_command" =>
                         (ActionFails(a) <=> SentResult(s).result = "error")
          /\ (s \in DOMAIN peer_connections /\ ~RpcStep(s)) =>
                peer_connections'[s].sent = peer_connections[s].sent]_vars

\* a failed read was answered with an Error, then a command that cannot be
\* started with a CommandOutput, each under its request's id
C36_Witness ==
    /\ 1 \in DOMAIN peer_connections
    /\ peer_connections[1].inbox = <<>>
    /\ Len(peer_connections[1].sent) = 2
    /\ peer_connections[1].sent[1].json.payload.result.result = "error"
    /\ peer_connections[1].sent[1].json.payload.request_id = 1
    /\ peer_connections[1].sent[2].json.payload.result.result = "command_output"
    /\ "failed" \in DOMAIN peer_connections[1].sent[2].json.payload.result.output
    /\ peer_connections[1].sent[2].json.payload.request_id = 2

\* ------------------------------------------------- the host application
\* the events one run of the specification Host takes from event_rx
MaxPolled == 4

\* RpcAction::RunCommand, as run_terminal requests it
RunCommandRequest(r) ==
    [request_id |-> r, action |-> [action |-> "run_command", command |-> "ls"]]

\* run_terminal: the command is echoed on the terminal, the request is
\* entered in pending under a fresh id and handed to the connection task
run_terminal ==
    /\ next_request <= MaxRequests
    /\ app' = [app EXCEPT
                 !.terminal_output = Append(@, "> ls"),
                 !.pending = Insert(@, next_request,
                                    [action |-> "RunTerminal", terminal_id |-> 1]),
                 !.active_bottom_tab = "Tasks"]
    /\ command_rx' = Append(command_rx, [command |-> "SendRpc",
                                         request |-> RunCommandRequest(next_request)])
    /\ next_request' = next_request + 1
    /\ UNCHANGED <<proxy_vars, mutex, net_vars, client_task, prefer_p2p, active_session,
                   peer_connection, data_channel, p2p_ready, client_ws_send,
                   events, rpc_sent, dc_c2s, server_vars>>

\* what a connection task may send on event_tx
HostEvents ==
    {EventStatus("P2P channel established"), EventTransport("WebSocket relay"),
     EventConnected, EventError("bad frame"), EventClosed("Disconnected")}
    \cup {EventRpcResponse([request_id |-> r, result |-> res]) :
            r \in 1..MaxRequests,
            res \in {[result |-> "command_output", output |-> "notes.txt"],
                     [result |-> "roots", roots |-> <<"/">>],
                     [result |-> "error", message |-> "cannot read"]}}

\* a connection task, whatever it does, sends an event
TaskSends ==
    /\ Len(events) < MaxPolled
    /\ \E e \in HostEvents : events' = Append(events, e)
    /\ UNCHANGED <<proxy_vars, mutex, net_vars, client_task, prefer_p2p, active_session,
                   peer_connection, data_channel, p2p_ready, client_ws_send,
                   command_rx, next_request, app, rpc_sent, dc_c2s, server_vars>>

\* handle_rpc_response for the pending actions run_terminal enters: the
\* output goes to the terminal, an error to the output lines, and any
\* other result is dropped
handle_rpc_response(a, action, response) ==
    CASE action.action = "RunTerminal" /\ response.result.result = "command_output" ->
           [a EXCEPT !.terminal_output = Append(@, response.result.output),
                     !.active_bottom_tab = "Terminal"]
      [] response.result.result = "error" ->
           [a EXCEPT !.output_lines = Append(@, response.result.message),
                     !.active_bottom_tab = "Output"]
      [] OTHER -> a

\* mutant of poll_events: the pending entry is looked up, not removed
poll_eventsKeeps ==
    /\ app.polled < Len(events)
    /\ LET event == events[app.polled + 1]
           a == [app EXCEPT !.polled = @ + 1]
       IN app' =
            CASE event.event = "Status" ->
                   [a EXCEPT !.output_lines = Append(@, event.message)]
              [] event.event = "Transport" ->
                   [a EXCEPT !.transport = event.message,
                             !.output_lines = Append(@, event.message)]
              [] event.event = "Connected" ->
                   [a EXCEPT !.connected = TRUE,
                             !.task_lines = Append(@, "connected")]
              [] event.event = "RpcResponse" ->
                   IF event.response.request_id \in DOMAIN a.pending
                   THEN handle_rpc_response(
                            a, a.pending[event.response.request_id], event.response)
                   ELSE a
              [] event.event = "Error" ->
                   [a EXCEPT !.output_lines = Append(@, event.message)]
              [] event.event = "Closed" ->
                   [a EXCEPT !.output_lines = Append(@, event.reason),
                             !.connected = FALSE,
                             !.transport = "Disconnected"]
    /\ UNCHANGED <<proxy_vars, mutex, net_vars, client_task, prefer_p2p, active_session,
                   peer_connection, data_channel, p2p_ready, client_ws_send,
                   command_rx, events, next_request, rpc_sent, dc_c2s, server_vars>>

\* poll_events, one turn of its loop: the next event of event_rx is taken
\* and applied to the application
poll_events ==
    /\ app.polled < Len(events)
    /\ LET event == events[app.polled + 1]
           a == [app EXCEPT !.polled = @ + 1]
       IN app' =
            CASE event.event = "Status" ->
                   [a EXCEPT !.output_lines = Append(@, event.message)]
              [] event.event = "Transport" ->
                   [a EXCEPT !.transport = event.message,
                             !.output_lines = Append(@, event.message)]
              [] event.event = "Connected" ->
                   [a EXCEPT !.connected = TRUE,
                             !.task_lines = Append(@, "connected")]
              [] event.event = "RpcResponse" ->
                   IF event.response.request_id \in DOMAIN a.pending
                   THEN handle_rpc_response(
                            [a EXCEPT !.pending =
                                        Remove(@, event.response.request_id)],
                            a.pending[event.response.request_id], event.response)
                   ELSE a
              [] event.event = "Error" ->
                   [a EXCEPT !.output_lines = Append(@, event.message)]
              [] event.event = "Closed" ->
                   [a EXCEPT !.output_lines = Append(@, event.reason),
                             !.connected = FALSE,
                             !.transport = "Disconnected"]
    /\ UNCHANGED <<proxy_vars, mutex, net_vars, client_task, prefer_p2p, active_session,
                   peer_connection, data_channel, p2p_ready, client_ws_send,
                   command_rx, events, next_request, rpc_sent, dc_c2s, server_vars>>

\* the host application with connection tasks that may send any event
HostNext ==
    \/ run_terminal
    \/ TaskSends
    \/ poll_events

Host == ClientPeerInit /\ [][HostNext]_vars

\* poll_events takes the next event from event_rx
PollStep == app'.polled = app.polled + 1

\* the event poll_events takes next
Polled == events[app.polled + 1]

\* the requests run_terminal has issued that are no longer pending
Completed == {r \in 1..MaxRequests : r < next_request /\ r \notin DOMAIN app.pending}

\* the responses the application has acted on: outputs shown on the
\* terminal and errors shown on the output lines
Effects ==
    Cardinality({i \in DOMAIN app.terminal_output : app.terminal_output[i] = "notes.txt"})
    + Cardinality({i \in DOMAIN app.output_lines : app.output_lines[i] = "cannot read"})

\* C37: when poll_events takes an RpcResponse whose request_id is pending,
\* the entry is removed and the response is handled for the entry's action
\* (a command output is appended to the terminal, an error to the output
\* lines); when the request_id is not pending, nothing of the application
\* changes; a completed request never becomes pending again, and the
\* application has acted on no more responses than requests have completed.
C37_CompletedAtMostOnce ==
    /\ [][(PollStep /\ Polled.event = "RpcResponse") =>
             LET r == Polled.response.request_id
                 res == Polled.response.result
             IN IF r \in DOMAIN app.pending
                THEN /\ app'.pending = Remove(app.pending, r)
                     /\ app'.terminal_output =
                           IF res.result = "command_output"
                           THEN Append(app.terminal_output, res.output)
                           ELSE app.terminal_output
                     /\ app'.output_lines =
                           IF res.result = "error"
                           THEN Append(app.output_lines, res.message)
                           ELSE app.output_lines
                ELSE app' = [app EXCEPT !.polled = @ + 1]]_vars
    /\ [][\A r \in Completed : r \notin DOMAIN app'.pending]_vars
    /\ [](Effects <= Cardinality(Completed))

\* request 1 was answered twice and both responses have been taken: the
\* terminal shows the command and one output
C37_Witness ==
    /\ app.polled >= 2
    /\ \E i, j \in 1..app.polled :
          /\ i < j
          /\ events[i].event = "RpcResponse" /\ events[i].response.request_id = 1
          /\ events[i].response.result.result = "command_output"
          /\ events[j].event = "RpcResponse" /\ events[j].response.request_id = 1
    /\ app.terminal_output = <<"> ls", "notes.txt">>
    /\ 1 \in Completed

\* connection_task takes a connected frame from its socket
ConnectedStep ==
    /\ ClientTakes /\ ClientParses
    /\ ClientHead.type = "connected"

\* the step sends the Transport event with this message on event_tx
Emits(message) ==
    \E i \in (Len(events) + 1)..Len(events') : events'[i] = EventTransport(message)

\* the Transport events sent so far, in order
TransportEvents == SelectSeq(events, LAMBDA e : e.event = "Transport")

\* the client's offer is queued for the writer or written to the socket
OfferOut ==
    \E s \in SessionIds :
       \/ \E i \in DOMAIN client_ws_send : client_ws_send[i] = Signal(s, SdpOffer)
       \/ \E i \in DOMAIN up[conn_of["client"]] :
             up[conn_of["client"]][i] = Signal(s, SdpOffer)

\* C38: on connected the task sends Connected and then one Transport
\* event: "Attempting P2P via TURN" when via_p2p is set and TURN credentials
\* are present, with no offer out before and the offer queued by the same
\* arm, and "WebSocket relay" otherwise, with no offer and no peer
\* connection.  "P2P data channel" is sent only by the step that sets
\* p2p_ready, on a stored channel; every step that clears p2p_ready sends
\* "WebSocket relay", and that message is sent by nothing but the connected
\* arm and the close callback; p2p_ready is set exactly while the last
\* Transport event is "P2P data channel", which "Attempting P2P via TURN"
\* precedes.
C38_TransportOrder ==
    /\ [][ConnectedStep =>
             LET attempt == ClientHead.via_p2p /\ TurnOf(ClientHead) # NoTurn
             IN /\ events' =
                      events \o <<EventConnected,
                                  EventTransport(IF attempt
                                                 THEN "Attempting P2P via TURN"
                                                 ELSE "WebSocket relay")>>
                /\ attempt =>
                      /\ ~OfferOut
                      /\ client_ws_send' =
                            Append(client_ws_send,
                                   Signal(ClientHead.session_id, SdpOffer))
                /\ ~attempt =>
                      UNCHANGED <<client_ws_send, peer_connection, data_channel>>]_vars
    /\ [][Emits("Attempting P2P via TURN") => ConnectedStep]_vars
    /\ [][Emits("P2P data channel") =>
             ~p2p_ready /\ p2p_ready' /\ data_channel]_vars
    /\ [][(p2p_ready /\ ~p2p_ready') => Emits("WebSocket relay")]_vars
    /\ [][Emits("WebSocket relay") =>
             /\ ~p2p_ready'
             /\ ConnectedStep \/ ClosedStatus = events'[Len(events')]]_vars
    /\ [](/\ p2p_ready <=>
               /\ TransportEvents # <<>>
               /\ TransportEvents[Len(TransportEvents)] =
                     EventTransport("P2P data channel")
           /\ \A i \in DOMAIN TransportEvents :
                 TransportEvents[i] = EventTransport("P2P data channel") =>
                    \E j \in 1..(i - 1) :
                       TransportEvents[j] = EventTransport("Attempting P2P via TURN"))

\* the channel was attempted, opened and closed: three Transport events,
\* and p2p_ready is clear again
C38_Witness ==
    /\ TransportEvents = <<EventTransport("Attempting P2P via TURN"),
                           EventTransport("P2P data channel"),
                           EventTransport("WebSocket relay")>>
    /\ ~p2p_ready

====
